---- MODULE Spec2Model ----
(***************************************************************************)
(* Model of the manual agent canvas (ManualAgentCanvas.tsx): the box and   *)
(* connection lists, the mouse-driven interaction controller, the keyboard *)
(* shortcuts and the per-connection message filter.                        *)
(*                                                                         *)
(* Conventions.  A box id is a positive number (the code builds a unique   *)
(* string from Date.now() and Math.random()); 0 stands for null.  A        *)
(* connection id is the tuple <<fromId, toId, fromSide, toSide>>, which is *)
(* what the code concatenates with '-' separators; <<>> stands for null.   *)
(* A point is a pair <<x, y>>.                                             *)
(***************************************************************************)
EXTENDS Integers, Sequences, FiniteSets, TLC

VARIABLES boxes, connections, connectDrag, dragId, resizeId, offset,
          resizeStart, resizeBox, dragOverHandle, selectedConnectionId,
          popupStates, resizingPopup, draggingPopup, selectedBoxId,
          connectMode, pinnedBoxes, agentMessages, nextId, last,
          msgConn, msgResult

\* AgentVisualization.tsx: the interactions it is given, the connection
\* whose popup is open, and what the popup computes from them.
VARIABLES interactions, selectedConnection, commMessages, conversationGroups

\* App.tsx: the displayed backend status, the health checks that are under
\* way, and the course of the health check that settled last.
VARIABLES backendConnected, healthChecks, healthLast

\* ManualAgentCanvas.tsx, running a flow: the prompt, the mode, the flag
\* that a flow is running, the number of messages sent to the websocket,
\* the runs that were started, and how the last call of handleRunFlow went
\* ("none" before the first call, "blank" for a prompt that is empty after
\* trim, "noBoxes" for a canvas without boxes, else "started").
VARIABLES prompt, isOnlineMode, isRunning, wsSent, runs, runLast

\* ManualAgentCanvas.tsx, export and import: the viewport (the scale in
\* tenths), the file that was exported last with the state it was taken
\* from, the file the FileReader is reading, and how the last read ended.
VARIABLES canvasScale, canvasOffset, exported, reading, fileLast

\* App.tsx, handlePromptSubmit: the guard, the chat request of each prompt
\* pipeline, and how the last submission went.
VARIABLES isProcessing, chats, submitLast

\* AIChatPanel.tsx: the blocks, the guard, abortControllerRef.current (0 for
\* null, else the pipeline whose handleSubmit made the controller), the
\* pipelines with the request each awaits, the progress intervals that are
\* set, and the number of their ticks with the pipeline whose interval
\* ticked last.
VARIABLES aiInteractions, chatIsProcessing, abortController, pipelines,
          intervals, ticks

canvasVars == <<boxes, connections, connectDrag, dragId, resizeId, offset,
                resizeStart, resizeBox, dragOverHandle, selectedConnectionId,
                popupStates, resizingPopup, draggingPopup, selectedBoxId,
                connectMode, pinnedBoxes, agentMessages, nextId, last,
                msgConn, msgResult>>
vizVars == <<interactions, selectedConnection, commMessages,
             conversationGroups>>

appVars == <<backendConnected, healthChecks, healthLast>>
runVars == <<prompt, isOnlineMode, isRunning, wsSent, runs, runLast>>
fileVars == <<canvasScale, canvasOffset, exported, reading, fileLast>>
promptVars == <<isProcessing, chats, submitLast>>
chatVars == <<aiInteractions, chatIsProcessing, abortController, pipelines,
              intervals, ticks>>

\* What the handlers of the canvas leave alone.
extVars == <<vizVars, appVars, runVars, fileVars, promptVars, chatVars>>
\* What the handlers of the visualization leave alone.
notVizVars == <<canvasVars, appVars, runVars, fileVars, promptVars, chatVars>>
\* What the health check leaves alone.
notAppVars == <<canvasVars, vizVars, runVars, fileVars, promptVars, chatVars>>
\* What running a flow leaves alone besides the canvas.
notRunVars == <<vizVars, appVars, fileVars, promptVars, chatVars>>
\* What export and import leave alone besides the canvas and the prompt.
notFileVars == <<vizVars, appVars, promptVars, chatVars>>
\* What a prompt pipeline of the application leaves alone besides the
\* interactions.
notPromptVars == <<canvasVars, appVars, runVars, fileVars, chatVars>>
\* What the chat panel leaves alone.
notChatVars == <<canvasVars, vizVars, appVars, runVars, fileVars, promptVars>>

vars == <<canvasVars, extVars>>

(***************************************************************************)
(* Bounds of the model.                                                    *)
(***************************************************************************)
MaxBoxes == 2        \* boxes created in one behaviour
MaxConns == 2        \* length of the connection list
MaxCoord == 500      \* largest coordinate or size a gesture may produce
MaxMsgs == 3         \* length of the message log
MaxTime == 2         \* largest message timestamp

(***************************************************************************)
(* Program constants.                                                      *)
(***************************************************************************)
DEFAULT_BOX == [width |-> 300, height |-> 100]
DEFAULT_POPUP == [width |-> 400, height |-> 300]
MIN_BOX_WIDTH == 120
MIN_BOX_HEIGHT == 60
MIN_POPUP_WIDTH == 220
MIN_POPUP_HEIGHT == 80
BOX_START == 50

BoxSide == {"left", "right", "top", "bottom"}

\* handleOffsets, in halves: the anchor of a side is x + width * ox / 2.
handleOffsets ==
  [s \in BoxSide |->
     CASE s = "left"   -> [x |-> 0, y |-> 1]
       [] s = "right"  -> [x |-> 2, y |-> 1]
       [] s = "top"    -> [x |-> 1, y |-> 0]
       [] s = "bottom" -> [x |-> 1, y |-> 2]]

\* The handles the modelled user grabs and drops on, the points the cursor visits, the
\* field values typed and the keys pressed.
GrabSides == {"right"}
DropSides == {"left"}
MousePts == {<<60, 60>>}
GeomPts == {<<0, 0>>, <<200, 150>>, <<-400, -300>>}
Roles == {"", "coder"}
Keys == {"Escape", "Delete", "Backspace"}
Targets == {[tag |-> "body", editable |-> FALSE],
            [tag |-> "input", editable |-> FALSE],
            [tag |-> "textarea", editable |-> FALSE],
            [tag |-> "select", editable |-> FALSE],
            [tag |-> "div", editable |-> TRUE]}

\* The agents that send and receive messages: the two boxes of the
\* connection and a third agent.
EndBoxes == {1, 2}
Senders == {1, 2, 3}
Recipients == {1, 3}

Max(a, b) == IF a >= b THEN a ELSE b

(***************************************************************************)
(* Null values of the optional state.                                      *)
(***************************************************************************)
NoDrag == [fromId |-> 0, fromSide |-> "none", mouse |-> <<0, 0>>]
NoHandle == [boxId |-> 0, side |-> "none"]
NoResizingPopup ==
  [id |-> <<>>, startX |-> 0, startY |-> 0, startW |-> 0, startH |-> 0]
NoDraggingPopup == [id |-> <<>>, offsetX |-> 0, offsetY |-> 0]
NoPopupStates == [k \in {} |-> 0]
NoConn == <<>>
NoLast == [op |-> "init", box |-> 0, key |-> "", inText |-> FALSE,
           from |-> 0, to |-> 0, n |-> 0]

BoxIds == {boxes[i].id : i \in 1..Len(boxes)}

\* boxes.find(b => b.id === id); called only where the box exists.
FindBox(id) == boxes[CHOOSE i \in 1..Len(boxes) : boxes[i].id = id]

ConnId(fromId, toId, fromSide, toSide) == <<fromId, toId, fromSide, toSide>>

\* prev.filter(b => b.id !== id)
RemoveBox(bs, id) ==
  LET Keep(b) == b.id # id IN SelectSeq(bs, Keep)

\* A cascade that forgets the connections arriving at the box.
RemoveBoxConnections_OriginOnly(cs, id) ==
  LET Keep(c) == c.fromId # id IN SelectSeq(cs, Keep)

\* prev.filter(c => c.fromId !== id && c.toId !== id)
RemoveBoxConnections(cs, id) ==
  LET Keep(c) == c.fromId # id /\ c.toId # id IN SelectSeq(cs, Keep)

\* prev.filter(c => c.id !== cid)
RemoveConnection(cs, cid) ==
  LET Keep(c) == c.id # cid IN SelectSeq(cs, Keep)

\* A connection is drawn (path and popup) only when both boxes resolve.
Rendered(c) == c.fromId \in BoxIds /\ c.toId \in BoxIds

\* renderPopupForConnection returns a popup for exactly these list entries.
PopupIndices ==
  {i \in 1..Len(connections) :
     Rendered(connections[i]) /\ selectedConnectionId = connections[i].id}

\* The text fields: input, textarea, select and contenteditable elements.
InTextField(target) ==
  target.tag \in {"input", "textarea", "select"} \/ target.editable

\* History of the last operation: which handler ran, on which box (the box
\* of the button, or the selected box for a key), with which key, whether
\* the focus was in a text field, and, from the state before it, the
\* origin of the connection drag, the box of the hovered handle and the
\* number of connections.
Note(op, box, key, inText) ==
  [op |-> op, box |-> box, key |-> key, inText |-> inText,
   from |-> connectDrag.fromId, to |-> dragOverHandle.boxId,
   n |-> Len(connections)]
NoteOther == [op |-> "other", box |-> 0, key |-> "", inText |-> FALSE,
              from |-> 0, to |-> 0, n |-> 0]

(***************************************************************************)
(* Box operations.                                                         *)
(***************************************************************************)
CreateBox ==
  /\ nextId <= MaxBoxes
  /\ boxes' = Append(boxes, [id |-> nextId, x |-> BOX_START, y |-> BOX_START,
                             width |-> DEFAULT_BOX.width,
                             height |-> DEFAULT_BOX.height, role |-> ""])
  /\ nextId' = nextId + 1
  /\ last' = NoteOther
  /\ UNCHANGED extVars
  /\ UNCHANGED <<connections, connectDrag, dragId, resizeId, offset,
                 resizeStart, resizeBox, dragOverHandle, selectedConnectionId,
                 popupStates, resizingPopup, draggingPopup, selectedBoxId,
                 connectMode, pinnedBoxes, agentMessages, msgConn, msgResult>>

BoxChange(id, value) ==
  /\ id \in BoxIds
  /\ FindBox(id).role # value
  /\ boxes' = [i \in 1..Len(boxes) |->
                 IF boxes[i].id = id THEN [boxes[i] EXCEPT !.role = value]
                                     ELSE boxes[i]]
  /\ last' = NoteOther
  /\ UNCHANGED extVars
  /\ UNCHANGED <<connections, connectDrag, dragId, resizeId, offset,
                 resizeStart, resizeBox, dragOverHandle, selectedConnectionId,
                 popupStates, resizingPopup, draggingPopup, selectedBoxId,
                 connectMode, pinnedBoxes, agentMessages, nextId, msgConn,
                 msgResult>>

\* Mouse-down on a box; the element passes it on only for an unpinned box.
\* A mouse-down that reaches the handler on pinned boxes too.
ReachesBoxMouseDown_Pinned(id) == TRUE

\* onMouseDown={e => !pinnedBoxes[box.id] && handleBoxMouseDown(e, box.id)}
ReachesBoxMouseDown(id) == id \notin pinnedBoxes

BoxMouseDown(id, pt) ==
  /\ id \in BoxIds
  /\ ReachesBoxMouseDown(id)
  /\ dragId' = id
  /\ offset' = <<pt[1] - FindBox(id).x, pt[2] - FindBox(id).y>>
  /\ selectedBoxId' = id
  /\ selectedConnectionId' = NoConn
  /\ last' = NoteOther
  /\ UNCHANGED extVars
  /\ UNCHANGED <<boxes, connections, connectDrag, resizeId, resizeStart,
                 resizeBox, dragOverHandle, popupStates, resizingPopup,
                 draggingPopup, connectMode, pinnedBoxes, agentMessages,
                 nextId, msgConn, msgResult>>

ResizeMouseDown(id, pt) ==
  /\ id \in BoxIds
  /\ resizeId' = id
  /\ resizeStart' = pt
  /\ resizeBox' = [width |-> FindBox(id).width, height |-> FindBox(id).height]
  /\ last' = NoteOther
  /\ UNCHANGED extVars
  /\ UNCHANGED <<boxes, connections, connectDrag, dragId, offset,
                 dragOverHandle, selectedConnectionId, popupStates,
                 resizingPopup, draggingPopup, selectedBoxId, connectMode,
                 pinnedBoxes, agentMessages, nextId, msgConn, msgResult>>

\* A mouse-down on a handle that starts a drag in either mode.
StartsDrag_Always == TRUE

\* if (!connectMode) return null; in renderHandles, and
\* if (!connectMode) return; in handleHandleMouseDown.
StartsDrag == connectMode

\* Handles are rendered only in connect mode; the handler checks it again.
HandleMouseDown(boxId, side) ==
  /\ boxId \in BoxIds
  /\ StartsDrag
  /\ LET box == FindBox(boxId) IN
       connectDrag' =
         [fromId |-> boxId, fromSide |-> side,
          mouse |-> <<box.x + (box.width * handleOffsets[side].x) \div 2,
                      box.y + (box.height * handleOffsets[side].y) \div 2>>]
  /\ last' = NoteOther
  /\ UNCHANGED extVars
  /\ UNCHANGED <<boxes, connections, dragId, resizeId, offset, resizeStart,
                 resizeBox, dragOverHandle, selectedConnectionId, popupStates,
                 resizingPopup, draggingPopup, selectedBoxId, connectMode,
                 pinnedBoxes, agentMessages, nextId, msgConn, msgResult>>

\* onMouseEnter of a handle: connectDrag && setDragOverHandle({boxId, side})
HandleMouseEnter(boxId, side) ==
  /\ boxId \in BoxIds
  /\ connectMode
  /\ connectDrag # NoDrag
  /\ dragOverHandle' = [boxId |-> boxId, side |-> side]
  /\ last' = NoteOther
  /\ UNCHANGED extVars
  /\ UNCHANGED <<boxes, connections, connectDrag, dragId, resizeId, offset,
                 resizeStart, resizeBox, selectedConnectionId, popupStates,
                 resizingPopup, draggingPopup, selectedBoxId, connectMode,
                 pinnedBoxes, agentMessages, nextId, msgConn, msgResult>>

\* onMouseLeave of a handle: connectDrag && setDragOverHandle(null)
HandleMouseLeave(boxId) ==
  /\ boxId \in BoxIds
  /\ connectMode
  /\ connectDrag # NoDrag
  /\ dragOverHandle.boxId = boxId
  /\ dragOverHandle' = NoHandle
  /\ last' = NoteOther
  /\ UNCHANGED extVars
  /\ UNCHANGED <<boxes, connections, connectDrag, dragId, resizeId, offset,
                 resizeStart, resizeBox, selectedConnectionId, popupStates,
                 resizingPopup, draggingPopup, selectedBoxId, connectMode,
                 pinnedBoxes, agentMessages, nextId, msgConn, msgResult>>

(***************************************************************************)
(* Popup operations.  A popup state is the record the code keeps per       *)
(* connection id; hasPos / hasSize say whether x,y / width,height are set. *)
(***************************************************************************)
PopupStateOf(ps, id) ==
  IF id \in DOMAIN ps THEN ps[id]
  ELSE [hasPos |-> FALSE, x |-> 0, y |-> 0,
        hasSize |-> FALSE, width |-> 0, height |-> 0]

\* popup.x || 0, size.width || DEFAULT_POPUP.width, ...
PopupX(ps, id) == IF PopupStateOf(ps, id).hasPos THEN PopupStateOf(ps, id).x ELSE 0
PopupY(ps, id) == IF PopupStateOf(ps, id).hasPos THEN PopupStateOf(ps, id).y ELSE 0
PopupW(ps, id) ==
  IF PopupStateOf(ps, id).hasSize /\ PopupStateOf(ps, id).width # 0
  THEN PopupStateOf(ps, id).width ELSE DEFAULT_POPUP.width
PopupH(ps, id) ==
  IF PopupStateOf(ps, id).hasSize /\ PopupStateOf(ps, id).height # 0
  THEN PopupStateOf(ps, id).height ELSE DEFAULT_POPUP.height

SetPopupState(ps, id, st) ==
  [k \in DOMAIN ps \cup {id} |-> IF k = id THEN st ELSE ps[k]]

PopupResizeMouseDown(i, pt) ==
  /\ i \in PopupIndices
  /\ LET id == connections[i].id IN
       resizingPopup' = [id |-> id, startX |-> pt[1], startY |-> pt[2],
                         startW |-> PopupW(popupStates, id),
                         startH |-> PopupH(popupStates, id)]
  /\ last' = NoteOther
  /\ UNCHANGED extVars
  /\ UNCHANGED <<boxes, connections, connectDrag, dragId, resizeId, offset,
                 resizeStart, resizeBox, dragOverHandle, selectedConnectionId,
                 popupStates, draggingPopup, selectedBoxId, connectMode,
                 pinnedBoxes, agentMessages, nextId, msgConn, msgResult>>

PopupDragMouseDown(i, pt) ==
  /\ i \in PopupIndices
  /\ LET id == connections[i].id IN
       draggingPopup' = [id |-> id,
                         offsetX |-> pt[1] - PopupX(popupStates, id),
                         offsetY |-> pt[2] - PopupY(popupStates, id)]
  /\ last' = NoteOther
  /\ UNCHANGED extVars
  /\ UNCHANGED <<boxes, connections, connectDrag, dragId, resizeId, offset,
                 resizeStart, resizeBox, dragOverHandle, selectedConnectionId,
                 popupStates, resizingPopup, selectedBoxId, connectMode,
                 pinnedBoxes, agentMessages, nextId, msgConn, msgResult>>

(***************************************************************************)
(* Mouse move and mouse up on the canvas.                                  *)
(***************************************************************************)
InRange(v) == -MaxCoord <= v /\ v <= MaxCoord

\* A resize that forgets the floor.
ResizedBoxes_NoFloor(pt) ==
  [i \in 1..Len(boxes) |->
     IF boxes[i].id = resizeId
     THEN [boxes[i] EXCEPT
             !.width = resizeBox.width + (pt[1] - resizeStart[1]),
             !.height = resizeBox.height + (pt[2] - resizeStart[2])]
     ELSE boxes[i]]

ResizedBoxes(pt) ==
  [i \in 1..Len(boxes) |->
     IF boxes[i].id = resizeId
     THEN [boxes[i] EXCEPT
             !.width = Max(MIN_BOX_WIDTH, resizeBox.width + (pt[1] - resizeStart[1])),
             !.height = Max(MIN_BOX_HEIGHT, resizeBox.height + (pt[2] - resizeStart[2]))]
     ELSE boxes[i]]

\* A drag that moves every box when its own box is not found.
DraggedBoxes_Fallback(pt) ==
  [i \in 1..Len(boxes) |->
     IF boxes[i].id = dragId \/ dragId \notin BoxIds
     THEN [boxes[i] EXCEPT !.x = pt[1] - offset[1], !.y = pt[2] - offset[2]]
     ELSE boxes[i]]

\* prev.map(box => box.id === dragId ? {...box, x, y} : box)
DraggedBoxes(pt) ==
  [i \in 1..Len(boxes) |->
     IF boxes[i].id = dragId
     THEN [boxes[i] EXCEPT !.x = pt[1] - offset[1], !.y = pt[2] - offset[2]]
     ELSE boxes[i]]

BoxesInRange(bs) ==
  \A i \in 1..Len(bs) :
    InRange(bs[i].x) /\ InRange(bs[i].y) /\ InRange(bs[i].width) /\ InRange(bs[i].height)

\* The id a move of the mouse looks up in the boxes: resizeId, else dragId.
MovedBox == IF resizeId # 0 THEN resizeId ELSE dragId

CanvasMouseMove(pt) ==
  /\ IF draggingPopup # NoDraggingPopup THEN
       /\ popupStates' =
            SetPopupState(popupStates, draggingPopup.id,
              [hasPos |-> TRUE,
               x |-> pt[1] - draggingPopup.offsetX,
               y |-> pt[2] - draggingPopup.offsetY,
               hasSize |-> TRUE,
               width |-> PopupW(popupStates, draggingPopup.id),
               height |-> PopupH(popupStates, draggingPopup.id)])
       /\ InRange(pt[1] - draggingPopup.offsetX)
       /\ InRange(pt[2] - draggingPopup.offsetY)
       /\ UNCHANGED <<boxes, connectDrag>>
     ELSE IF resizingPopup # NoResizingPopup THEN
       /\ popupStates' =
            SetPopupState(popupStates, resizingPopup.id,
              [PopupStateOf(popupStates, resizingPopup.id) EXCEPT
                 !.hasSize = TRUE,
                 !.width = Max(MIN_POPUP_WIDTH,
                               resizingPopup.startW + (pt[1] - resizingPopup.startX)),
                 !.height = Max(MIN_POPUP_HEIGHT,
                                resizingPopup.startH + (pt[2] - resizingPopup.startY))])
       /\ InRange(resizingPopup.startW + (pt[1] - resizingPopup.startX))
       /\ InRange(resizingPopup.startH + (pt[2] - resizingPopup.startY))
       /\ UNCHANGED <<boxes, connectDrag>>
     ELSE IF resizeId # 0 THEN
       /\ boxes' = ResizedBoxes(pt)
       /\ BoxesInRange(boxes')
       /\ UNCHANGED <<popupStates, connectDrag>>
     ELSE IF dragId # 0 THEN
       /\ boxes' = DraggedBoxes(pt)
       /\ BoxesInRange(boxes')
       /\ UNCHANGED <<popupStates, connectDrag>>
     ELSE
       /\ connectDrag # NoDrag
       /\ connectDrag' = [connectDrag EXCEPT !.mouse = pt]
       /\ UNCHANGED <<boxes, popupStates>>
  /\ last' = Note("mouseMove", MovedBox, "", FALSE)
  /\ UNCHANGED extVars
  /\ UNCHANGED <<connections, dragId, resizeId, offset, resizeStart,
                 resizeBox, dragOverHandle, selectedConnectionId,
                 resizingPopup, draggingPopup, selectedBoxId, connectMode,
                 pinnedBoxes, agentMessages, nextId, msgConn, msgResult>>

\* The connection a drag commits on mouse-up.
NewConnection ==
  [id |-> ConnId(connectDrag.fromId, dragOverHandle.boxId,
                 connectDrag.fromSide, dragOverHandle.side),
   fromId |-> connectDrag.fromId, fromSide |-> connectDrag.fromSide,
   toId |-> dragOverHandle.boxId, toSide |-> dragOverHandle.side]

\* A commit test that forgets to compare the two boxes.
CommitsConnection_AnyHandle == dragOverHandle # NoHandle

\* dragOverHandle && dragOverHandle.boxId !== connectDrag.fromId
CommitsConnection ==
  dragOverHandle # NoHandle /\ dragOverHandle.boxId # connectDrag.fromId

CanvasMouseUp ==
  /\ IF draggingPopup # NoDraggingPopup THEN
       /\ draggingPopup' = NoDraggingPopup
       /\ UNCHANGED <<resizingPopup, connections, connectDrag, dragOverHandle,
                      dragId, resizeId>>
     ELSE IF resizingPopup # NoResizingPopup THEN
       /\ resizingPopup' = NoResizingPopup
       /\ UNCHANGED <<draggingPopup, connections, connectDrag, dragOverHandle,
                      dragId, resizeId>>
     ELSE IF connectDrag # NoDrag THEN
       /\ IF CommitsConnection
          THEN /\ Len(connections) < MaxConns
               /\ connections' = Append(connections, NewConnection)
          ELSE UNCHANGED connections
       /\ connectDrag' = NoDrag
       /\ dragOverHandle' = NoHandle
       /\ UNCHANGED <<draggingPopup, resizingPopup, dragId, resizeId>>
     ELSE
       /\ dragId' = 0
       /\ resizeId' = 0
       /\ UNCHANGED <<draggingPopup, resizingPopup, connections, connectDrag,
                      dragOverHandle>>
  /\ last' = Note("mouseUp", 0, "", FALSE)
  /\ UNCHANGED extVars
  /\ UNCHANGED <<boxes, offset, resizeStart, resizeBox, selectedConnectionId,
                 popupStates, selectedBoxId, connectMode, pinnedBoxes,
                 agentMessages, nextId, msgConn, msgResult>>

(***************************************************************************)
(* Buttons, clicks and keys.                                               *)
(***************************************************************************)
\* The trash button of a box.
DeleteBoxClick(id) ==
  /\ id \in BoxIds
  /\ boxes' = RemoveBox(boxes, id)
  /\ connections' = RemoveBoxConnections(connections, id)
  /\ last' = Note("deleteBox", id, "", FALSE)
  /\ UNCHANGED extVars
  /\ UNCHANGED <<connectDrag, dragId, resizeId, offset, resizeStart,
                 resizeBox, dragOverHandle, selectedConnectionId, popupStates,
                 resizingPopup, draggingPopup, selectedBoxId, connectMode,
                 pinnedBoxes, agentMessages, nextId, msgConn, msgResult>>

\* The pin button of a box: prev => ({...prev, [id]: !prev[id]})
TogglePin(id) ==
  /\ id \in BoxIds
  /\ pinnedBoxes' = IF id \in pinnedBoxes THEN pinnedBoxes \ {id}
                                          ELSE pinnedBoxes \cup {id}
  /\ last' = NoteOther
  /\ UNCHANGED extVars
  /\ UNCHANGED <<boxes, connections, connectDrag, dragId, resizeId, offset,
                 resizeStart, resizeBox, dragOverHandle, selectedConnectionId,
                 popupStates, resizingPopup, draggingPopup, selectedBoxId,
                 connectMode, agentMessages, nextId, msgConn, msgResult>>

\* Click on the path of the i-th connection.
ConnectionClick(i) ==
  /\ i \in 1..Len(connections)
  /\ Rendered(connections[i])
  /\ selectedBoxId' = 0
  /\ selectedConnectionId' = connections[i].id
  /\ last' = NoteOther
  /\ UNCHANGED extVars
  /\ UNCHANGED <<boxes, connections, connectDrag, dragId, resizeId, offset,
                 resizeStart, resizeBox, dragOverHandle, popupStates,
                 resizingPopup, draggingPopup, connectMode, pinnedBoxes,
                 agentMessages, nextId, msgConn, msgResult>>

\* The Delete button of the popup drawn for the i-th connection.
PopupDelete(i) ==
  /\ i \in PopupIndices
  /\ connections' = RemoveConnection(connections, connections[i].id)
  /\ selectedConnectionId' = NoConn
  /\ last' = NoteOther
  /\ UNCHANGED extVars
  /\ UNCHANGED <<boxes, connectDrag, dragId, resizeId, offset, resizeStart,
                 resizeBox, dragOverHandle, popupStates, resizingPopup,
                 draggingPopup, selectedBoxId, connectMode, pinnedBoxes,
                 agentMessages, nextId, msgConn, msgResult>>

\* The Close button of a popup.
PopupClose ==
  /\ PopupIndices # {}
  /\ selectedConnectionId' = NoConn
  /\ last' = NoteOther
  /\ UNCHANGED extVars
  /\ UNCHANGED <<boxes, connections, connectDrag, dragId, resizeId, offset,
                 resizeStart, resizeBox, dragOverHandle, popupStates,
                 resizingPopup, draggingPopup, selectedBoxId, connectMode,
                 pinnedBoxes, agentMessages, nextId, msgConn, msgResult>>

\* Click on the empty canvas (the svg layer or the canvas element itself).
CanvasClick ==
  /\ selectedBoxId' = 0
  /\ selectedConnectionId' = NoConn
  /\ IF connectDrag # NoDrag
     THEN connectDrag' = NoDrag /\ dragOverHandle' = NoHandle
     ELSE UNCHANGED <<connectDrag, dragOverHandle>>
  /\ last' = NoteOther
  /\ UNCHANGED extVars
  /\ UNCHANGED <<boxes, connections, dragId, resizeId, offset, resizeStart,
                 resizeBox, popupStates, resizingPopup, draggingPopup,
                 connectMode, pinnedBoxes, agentMessages, nextId, msgConn,
                 msgResult>>

ToggleConnectMode ==
  /\ connectMode' = ~connectMode
  /\ last' = NoteOther
  /\ UNCHANGED extVars
  /\ UNCHANGED <<boxes, connections, connectDrag, dragId, resizeId, offset,
                 resizeStart, resizeBox, dragOverHandle, selectedConnectionId,
                 popupStates, resizingPopup, draggingPopup, selectedBoxId,
                 pinnedBoxes, agentMessages, nextId, msgConn, msgResult>>

\* Clear, confirmed by the user.
ClearCanvas ==
  /\ boxes' = <<>>
  /\ connections' = <<>>
  /\ agentMessages' = <<>>
  /\ selectedBoxId' = 0
  /\ selectedConnectionId' = NoConn
  /\ connectDrag' = NoDrag
  /\ dragOverHandle' = NoHandle
  /\ connectMode' = FALSE
  /\ popupStates' = NoPopupStates
  /\ last' = NoteOther
  /\ UNCHANGED extVars
  /\ UNCHANGED <<dragId, resizeId, offset, resizeStart, resizeBox,
                 resizingPopup, draggingPopup, pinnedBoxes, nextId, msgConn,
                 msgResult>>

\* A typing test that also takes the page body for a text field.
IsTyping_Body(target) ==
  target.tag \in {"input", "textarea", "select", "body"} \/ target.editable

\* A typing test that forgets the select element.
IsTyping_NoSelect(target) ==
  target.tag = "input" \/ target.tag = "textarea" \/ target.editable

\* tag === 'input' || tag === 'textarea' || target.isContentEditable ||
\* tag === 'select'
IsTyping(target) ==
  target.tag = "input" \/ target.tag = "textarea" \/ target.editable
    \/ target.tag = "select"

\* The window keydown listener; target is the element that has the focus.
KeyDown(key, target) ==
  /\ IF IsTyping(target) THEN
       UNCHANGED <<boxes, connections, connectDrag, dragOverHandle,
                   connectMode, selectedConnectionId, selectedBoxId>>
     ELSE IF key = "Escape" THEN
       /\ connectDrag' = NoDrag
       /\ dragOverHandle' = NoHandle
       /\ connectMode' = FALSE
       /\ selectedConnectionId' = NoConn
       /\ selectedBoxId' = 0
       /\ UNCHANGED <<boxes, connections>>
     ELSE IF key \in {"Delete", "Backspace"} THEN
       IF selectedBoxId # 0 THEN
         /\ boxes' = RemoveBox(boxes, selectedBoxId)
         /\ connections' = RemoveBoxConnections(connections, selectedBoxId)
         /\ selectedBoxId' = 0
         /\ UNCHANGED <<connectDrag, dragOverHandle, connectMode,
                        selectedConnectionId>>
       ELSE IF selectedConnectionId # NoConn THEN
         /\ connections' = RemoveConnection(connections, selectedConnectionId)
         /\ selectedConnectionId' = NoConn
         /\ UNCHANGED <<boxes, connectDrag, dragOverHandle, connectMode,
                        selectedBoxId>>
       ELSE
         UNCHANGED <<boxes, connections, connectDrag, dragOverHandle,
                     connectMode, selectedConnectionId, selectedBoxId>>
     ELSE
       UNCHANGED <<boxes, connections, connectDrag, dragOverHandle,
                   connectMode, selectedConnectionId, selectedBoxId>>
  /\ last' = Note("keyDown", selectedBoxId, key, InTextField(target))
  /\ UNCHANGED extVars
  /\ UNCHANGED <<dragId, resizeId, offset, resizeStart, resizeBox,
                 popupStates, resizingPopup, draggingPopup, pinnedBoxes,
                 agentMessages, nextId, msgConn, msgResult>>

(***************************************************************************)
(* The message log and the messages shown for a connection.  A message     *)
(* carries the id of its sender in agentId and its recipient in toAgent;   *)
(* its timestamp is the number of milliseconds new Date(...).getTime()     *)
(* gives for it.                                                           *)
(***************************************************************************)
\* The stable ascending sort of Array.prototype.sort with the comparator
\* (a, b) => time(a) - time(b): insert each message behind the messages
\* that are not later than it.
InsertByTime(sorted, m) ==
  LET n == Cardinality({k \in 1..Len(sorted) : sorted[k].timestamp <= m.timestamp})
  IN SubSeq(sorted, 1, n) \o <<m>> \o SubSeq(sorted, n + 1, Len(sorted))

RECURSIVE SortByTime(_)
SortByTime(ms) ==
  IF ms = <<>> THEN <<>>
  ELSE InsertByTime(SortByTime(SubSeq(ms, 1, Len(ms) - 1)), ms[Len(ms)])

\* A filter that looks at the origin box only.
GetConnectionMessages_FromOnly(log, fromId, toId) ==
  LET Match(m) == m.agentId = fromId IN SortByTime(SelectSeq(log, Match))

\* A filter that returns the messages in log order.
GetConnectionMessages_Unsorted(log, fromId, toId) ==
  LET Match(m) == m.agentId = fromId \/ m.agentId = toId
  IN SelectSeq(log, Match)

GetConnectionMessages(log, fromId, toId) ==
  LET Match(m) == m.agentId = fromId \/ m.agentId = toId
  IN SortByTime(SelectSeq(log, Match))

\* What the popup of the connection msgConn = <<fromId, toId>> shows.
Shown(log, conn) ==
  IF conn = <<>> THEN <<>> ELSE GetConnectionMessages(log, conn[1], conn[2])

\* The websocket agent_message event: a message is appended to the log and
\* the popup is rendered again.
AgentMessage(fromAgent, toAgent, time) ==
  /\ Len(agentMessages) < MaxMsgs
  /\ agentMessages' =
       Append(agentMessages,
              [id |-> Len(agentMessages) + 1, agentId |-> fromAgent,
               fromAgent |-> fromAgent, toAgent |-> toAgent,
               timestamp |-> time])
  /\ msgResult' = Shown(agentMessages', msgConn)
  /\ last' = NoteOther
  /\ UNCHANGED extVars
  /\ UNCHANGED <<boxes, connections, connectDrag, dragId, resizeId, offset,
                 resizeStart, resizeBox, dragOverHandle, selectedConnectionId,
                 popupStates, resizingPopup, draggingPopup, selectedBoxId,
                 connectMode, pinnedBoxes, nextId, msgConn>>

\* The popup of a connection from box fromId to box toId is rendered.
RenderPopup(fromId, toId) ==
  /\ fromId # toId
  /\ msgConn # <<fromId, toId>>
  /\ msgConn' = <<fromId, toId>>
  /\ msgResult' = Shown(agentMessages, msgConn')
  /\ last' = NoteOther
  /\ UNCHANGED extVars
  /\ UNCHANGED <<boxes, connections, connectDrag, dragId, resizeId, offset,
                 resizeStart, resizeBox, dragOverHandle, selectedConnectionId,
                 popupStates, resizingPopup, draggingPopup, selectedBoxId,
                 connectMode, pinnedBoxes, agentMessages, nextId>>

\* The visualization starts without interactions and without a popup.
NoSelectedConnection == [from |-> "", to |-> ""]
InitViz ==
  /\ interactions = <<>>
  /\ selectedConnection = NoSelectedConnection
  /\ commMessages = <<>>
  /\ conversationGroups = <<>>

\* useState<boolean | null>(null); no health check has been started.
MaxChecks == 3       \* health checks under way at a time
NoHealth == [op |-> "none", check |-> 0, fetch |-> "", body |-> "",
             result |-> "", before |-> "null"]
InitApp ==
  /\ backendConnected = "null"
  /\ healthChecks = [c \in 1..MaxChecks |-> "idle"]
  /\ healthLast = NoHealth

\* useState(''), useState(false), useState(false); no run was started.
MaxRuns == 2         \* flows run in one behaviour
MaxPending == 2      \* status requests of one workflow under way at once
NoRun == [pc |-> "none", online |-> FALSE, pending |-> 0]
InitRun ==
  /\ prompt = ""
  /\ isOnlineMode = FALSE
  /\ isRunning = FALSE
  /\ wsSent = 0
  /\ runs = [r \in 1..MaxRuns |-> NoRun]
  /\ runLast = "none"

\* The values of a JSON document, by their type.
\* A property that is missing or of another type than the import expects;
\* zero is the value the model keeps in its place.
Other(tag, zero) == [t |-> tag, v |-> zero]
Num(n) == [t |-> "number", v |-> n]
Str(text) == [t |-> "string", v |-> text]
Arr(items) == [t |-> "array", v |-> items]
Obj(value) == [t |-> "object", v |-> value]
EmptyData ==
  [version |-> Other("absent", 0), prompt |-> Other("absent", ""),
   boxes |-> Other("absent", <<>>), connections |-> Other("absent", <<>>),
   pinnedBoxes |-> Other("absent", {}), canvasScale |-> Other("absent", 0),
   canvasOffset |-> Other("absent", <<>>)]
\* A file is text that JSON.parse rejects ("text"), the document null
\* ("null") or an object ("json") with its properties in data.
NoFile == [kind |-> "none", data |-> EmptyData]
NoExport == [file |-> NoFile, at |-> <<>>]
NoRead == [op |-> "none", own |-> FALSE, wasEmpty |-> FALSE]

\* useState(1), useState({ x: 0, y: 0 }); nothing exported, nothing read.
InitFile ==
  /\ canvasScale = 10
  /\ canvasOffset = <<0, 0>>
  /\ exported = NoExport
  /\ reading = NoFile
  /\ fileLast = NoRead

\* useState(false); no prompt was submitted.
MaxPrompts == 2      \* prompt pipelines of the application in one behaviour
InitPrompt ==
  /\ isProcessing = FALSE
  /\ chats = [p \in 1..MaxPrompts |-> "idle"]
  /\ submitLast = "none"

\* useState([]), useState(false), useRef(null); no pipeline was started.
MaxPipelines == 2    \* pipelines of the chat panel in one behaviour
NoPipeline == [pc |-> "idle", iteration |-> 0, signal |-> 0]
InitChat ==
  /\ aiInteractions = <<>>
  /\ chatIsProcessing = FALSE
  /\ abortController = 0
  /\ pipelines = [p \in 1..MaxPipelines |-> NoPipeline]
  /\ intervals = {}
  /\ ticks = [n |-> 0, by |-> 0]

InitExt == InitViz /\ InitApp /\ InitRun /\ InitFile /\ InitPrompt /\ InitChat

Init ==
  /\ boxes = <<>>
  /\ connections = <<>>
  /\ connectDrag = NoDrag
  /\ dragId = 0
  /\ resizeId = 0
  /\ offset = <<0, 0>>
  /\ resizeStart = <<0, 0>>
  /\ resizeBox = [width |-> 0, height |-> 0]
  /\ dragOverHandle = NoHandle
  /\ selectedConnectionId = NoConn
  /\ popupStates = NoPopupStates
  /\ resizingPopup = NoResizingPopup
  /\ draggingPopup = NoDraggingPopup
  /\ selectedBoxId = 0
  /\ connectMode = FALSE
  /\ pinnedBoxes = {}
  /\ agentMessages = <<>>
  /\ nextId = 1
  /\ last = NoLast
  /\ msgConn = <<>>
  /\ msgResult = <<>>
  /\ InitExt

Next ==
  \/ CreateBox
  \/ \E id \in BoxIds, pt \in MousePts : BoxMouseDown(id, pt)
  \/ \E id \in BoxIds, side \in GrabSides : HandleMouseDown(id, side)
  \/ \E id \in BoxIds, side \in DropSides : HandleMouseEnter(id, side)
  \/ \E id \in BoxIds : HandleMouseLeave(id)
  \/ CanvasMouseUp
  \/ \E id \in BoxIds : DeleteBoxClick(id)
  \/ \E i \in 1..Len(connections) : ConnectionClick(i)
  \/ \E i \in 1..Len(connections) : PopupDelete(i)
  \/ PopupClose
  \/ CanvasClick
  \/ ToggleConnectMode
  \/ ClearCanvas
  \/ \E key \in Keys, target \in Targets : KeyDown(key, target)

Spec == Init /\ [][Next]_vars

\* Resizing: creation, field edits, the resize gesture with a cursor that
\* moves, and deletion.
NextResize ==
  \/ CreateBox
  \/ \E id \in BoxIds, v \in Roles : BoxChange(id, v)
  \/ \E id \in BoxIds, pt \in GeomPts : ResizeMouseDown(id, pt)
  \/ \E pt \in GeomPts : CanvasMouseMove(pt)
  \/ CanvasMouseUp
  \/ \E id \in BoxIds : DeleteBoxClick(id)

SpecResize == Init /\ [][NextResize]_vars

\* The connection gesture: connect mode, a drag from a handle that enters
\* and leaves handles and is dropped, with boxes deleted and keys pressed
\* while it is under way.
NextConnect ==
  \/ CreateBox
  \/ ToggleConnectMode
  \/ \E id \in BoxIds, side \in GrabSides : HandleMouseDown(id, side)
  \/ \E id \in BoxIds, side \in DropSides : HandleMouseEnter(id, side)
  \/ \E id \in BoxIds : HandleMouseLeave(id)
  \/ CanvasMouseUp
  \/ \E id \in BoxIds : DeleteBoxClick(id)
  \/ ClearCanvas
  \/ \E key \in Keys, target \in Targets : KeyDown(key, target)

SpecConnect == Init /\ [][NextConnect]_vars

\* The boxes of a saved canvas and the lists of connections between them.
FileBoxes(n) ==
  [i \in 1..n |-> [id |-> i, x |-> BOX_START, y |-> BOX_START,
                   width |-> DEFAULT_BOX.width,
                   height |-> DEFAULT_BOX.height, role |-> ""]]
FileConnection(a, b) ==
  [id |-> ConnId(a, b, "right", "left"),
   fromId |-> a, fromSide |-> "right", toId |-> b, toSide |-> "left"]
FileConnections(n) ==
  LET Ends == {e \in (1..n) \X (1..n) : e[1] # e[2]}
      Links == {FileConnection(e[1], e[2]) : e \in Ends}
  IN UNION {[1..k -> Links] : k \in 0..MaxConns}

\* The canvas right after handleImportChange has read a saved file into a
\* new canvas: the boxes and connections of the file, no selection, no
\* connection drag, connect mode off, no messages.
InitImported ==
  /\ \E n \in 0..MaxBoxes :
       /\ boxes = FileBoxes(n)
       /\ connections \in FileConnections(n)
       /\ nextId = n + 1
  /\ connectDrag = NoDrag
  /\ dragId = 0
  /\ resizeId = 0
  /\ offset = <<0, 0>>
  /\ resizeStart = <<0, 0>>
  /\ resizeBox = [width |-> 0, height |-> 0]
  /\ dragOverHandle = NoHandle
  /\ selectedConnectionId = NoConn
  /\ popupStates = NoPopupStates
  /\ resizingPopup = NoResizingPopup
  /\ draggingPopup = NoDraggingPopup
  /\ selectedBoxId = 0
  /\ connectMode = FALSE
  /\ pinnedBoxes = {}
  /\ agentMessages = <<>>
  /\ last = NoLast
  /\ msgConn = <<>>
  /\ msgResult = <<>>
  /\ InitExt

\* Selection and deletion on an imported canvas: boxes and connections are
\* selected by the mouse and removed by the trash button, the popup's
\* Delete button, the keyboard and Clear.
NextDelete ==
  \/ CreateBox
  \/ \E id \in BoxIds, pt \in MousePts : BoxMouseDown(id, pt)
  \/ CanvasMouseUp
  \/ \E i \in 1..Len(connections) : ConnectionClick(i)
  \/ \E i \in 1..Len(connections) : PopupDelete(i)
  \/ PopupClose
  \/ CanvasClick
  \/ \E id \in BoxIds : DeleteBoxClick(id)
  \/ ClearCanvas
  \/ \E key \in Keys, target \in Targets : KeyDown(key, target)

SpecDelete == InitImported /\ [][NextDelete]_vars

\* The message log and the popup of a connection between boxes 1 and 2.
NextMsg ==
  \/ \E a \in Senders, b \in Recipients, t \in 0..MaxTime : AgentMessage(a, b, t)
  \/ \E a \in EndBoxes, b \in EndBoxes : RenderPopup(a, b)

SpecMsg == Init /\ [][NextMsg]_vars

(***************************************************************************)
(* AgentVisualization.tsx: the popup of a connection between two agents.   *)
(* A block of interactions carries the type of the agent that wrote it and *)
(* its timestamp in milliseconds.                                          *)
(***************************************************************************)
MaxBlocks == 4       \* interactions given to the visualization
THRESHOLD == 5000    \* currentTime - previousTime <= 5000

AgentNames == {"Coordinator", "Coder", "Tester", "Runner"}
BlockTypes == {"coordinator", "coder", "tester", "runner"}

\* String.prototype.toLowerCase on the names of the agents.
ToLowerCase(name) ==
  CASE name = "Coordinator" -> "coordinator"
    [] name = "Coder" -> "coder"
    [] name = "Tester" -> "tester"
    [] name = "Runner" -> "runner"
    [] OTHER -> name

\* A filter that knows the pair coder, coordinator in one direction only.
GetCommunicationMessages_OneWay(log, from, to) ==
  LET fromType == ToLowerCase(from)
      toType == ToLowerCase(to)
      Match(block) ==
        IF fromType = "coordinator" /\ toType = "coder"
          THEN block.type = "coordinator" \/ block.type = "coder"
        ELSE IF fromType = "coordinator" /\ toType = "tester"
          THEN block.type = "coordinator" \/ block.type = "tester"
        ELSE IF fromType = "tester" /\ toType = "coordinator"
          THEN block.type = "tester" \/ block.type = "coordinator"
        ELSE IF fromType = "coordinator" /\ toType = "runner"
          THEN block.type = "coordinator" \/ block.type = "runner"
        ELSE IF fromType = "runner" /\ toType = "coordinator"
          THEN block.type = "runner" \/ block.type = "coordinator"
        ELSE FALSE
  IN SortByTime(SelectSeq(log, Match))

\* interactions.filter(...) with one case for each ordered pair of the
\* coordinator and another agent, then sort by timestamp.
GetCommunicationMessages(log, from, to) ==
  LET fromType == ToLowerCase(from)
      toType == ToLowerCase(to)
      Match(block) ==
        IF fromType = "coordinator" /\ toType = "coder"
          THEN block.type = "coordinator" \/ block.type = "coder"
        ELSE IF fromType = "coder" /\ toType = "coordinator"
          THEN block.type = "coder" \/ block.type = "coordinator"
        ELSE IF fromType = "coordinator" /\ toType = "tester"
          THEN block.type = "coordinator" \/ block.type = "tester"
        ELSE IF fromType = "tester" /\ toType = "coordinator"
          THEN block.type = "tester" \/ block.type = "coordinator"
        ELSE IF fromType = "coordinator" /\ toType = "runner"
          THEN block.type = "coordinator" \/ block.type = "runner"
        ELSE IF fromType = "runner" /\ toType = "coordinator"
          THEN block.type = "runner" \/ block.type = "coordinator"
        ELSE FALSE
  IN SortByTime(SelectSeq(log, Match))

\* A test that starts a new group at a gap of exactly the threshold.
SameConversation_Strict(previousMessage, currentMessage) ==
  currentMessage.timestamp - previousMessage.timestamp < THRESHOLD

\* currentTime - previousTime <= 5000
SameConversation(previousMessage, currentMessage) ==
  currentMessage.timestamp - previousMessage.timestamp <= THRESHOLD

\* The loop of groupMessagesByConversation from index i on, with the groups
\* closed so far and the group that is being filled.
RECURSIVE GroupLoop(_, _, _, _)
GroupLoop(messages, i, groups, currentGroup) ==
  IF i > Len(messages) THEN
    IF Len(currentGroup) > 0 THEN Append(groups, currentGroup) ELSE groups
  ELSE IF SameConversation(messages[i - 1], messages[i]) THEN
    GroupLoop(messages, i + 1, groups, Append(currentGroup, messages[i]))
  ELSE
    GroupLoop(messages, i + 1, Append(groups, currentGroup), <<messages[i]>>)

GroupMessagesByConversation(messages) ==
  IF Len(messages) = 0 THEN <<>>
  ELSE GroupLoop(messages, 2, <<>>, <<messages[1]>>)

\* CommunicationPopup: nothing without a selected connection, else the
\* messages of the connection and their groups.
PopupMessages(log, conn) ==
  IF conn = NoSelectedConnection THEN <<>>
  ELSE GetCommunicationMessages(log, conn.from, conn.to)

\* The parent passes a longer interactions list; the popup renders again.
AddInteraction(type, time) ==
  /\ Len(interactions) < MaxBlocks
  /\ interactions' = Append(interactions,
                            [id |-> Len(interactions) + 1, type |-> type,
                             timestamp |-> time])
  /\ commMessages' = PopupMessages(interactions', selectedConnection)
  /\ conversationGroups' = GroupMessagesByConversation(commMessages')
  /\ UNCHANGED selectedConnection
  /\ UNCHANGED notVizVars

\* setSelectedConnection(connection) by a click on a connection.
SelectCommunication(from, to) ==
  /\ selectedConnection # [from |-> from, to |-> to]
  /\ selectedConnection' = [from |-> from, to |-> to]
  /\ commMessages' = PopupMessages(interactions, selectedConnection')
  /\ conversationGroups' = GroupMessagesByConversation(commMessages')
  /\ UNCHANGED interactions
  /\ UNCHANGED notVizVars

\* setSelectedConnection(null) by the close button.
CloseCommunication ==
  /\ selectedConnection # NoSelectedConnection
  /\ selectedConnection' = NoSelectedConnection
  /\ commMessages' = <<>>
  /\ conversationGroups' = <<>>
  /\ UNCHANGED interactions
  /\ UNCHANGED notVizVars

\* Grouping: blocks of the coder at timestamps around the threshold, shown
\* in the popup of the coder's or of the tester's connection.
GroupTimes == {0, 1000, 6000, 6001, 7000, 7500}
GroupPairs == {<<"Coder", "Coordinator">>, <<"Tester", "Coordinator">>}
NextGroup ==
  \/ \E time \in GroupTimes : AddInteraction("coder", time)
  \/ \E pair \in GroupPairs : SelectCommunication(pair[1], pair[2])
  \/ CloseCommunication

SpecGroup == Init /\ [][NextGroup]_vars

\* Both filters: the message log of the canvas with the popup of a
\* connection between boxes 1 and 2, and the interactions of the
\* visualization with the popup of a pair of agents; MaxMsgs bounds the
\* two logs together.
SymTimes == {0, 1}
SymAgents == {"Coordinator", "Coder", "Tester"}
SymTypes == {"coordinator", "coder", "runner"}
SymLogs == Len(agentMessages) + Len(interactions)
NextSym ==
  \/ /\ SymLogs < MaxMsgs
     /\ \E a \in Senders, t \in SymTimes : AgentMessage(a, 1, t)
  \/ \E a \in EndBoxes, b \in EndBoxes : RenderPopup(a, b)
  \/ /\ SymLogs < MaxMsgs
     /\ \E type \in SymTypes, t \in SymTimes : AddInteraction(type, t)
  \/ \E from \in SymAgents, to \in SymAgents : SelectCommunication(from, to)

SpecSym == Init /\ [][NextSym]_vars

(***************************************************************************)
(* api.ts, App.tsx: the periodic health check.  backendConnected is "null" *)
(* before the first answer, then "true" or "false".  A call that throws is *)
(* the outcome "throw".                                                    *)
(***************************************************************************)
\* How the fetch of /health settles: the promise is rejected (network
\* error), or it resolves with a response whose ok flag is set or not.
FetchOutcomes == {"rejected", "ok", "notOk"}
\* Whether response.json() can read the body.
Bodies == {"readable", "unreadable"}

\* The try block of testBackendConnection.
HealthTry(fetch, body) ==
  IF fetch = "rejected" THEN "throw"
  ELSE IF fetch = "ok" THEN
    IF body = "unreadable" THEN "throw" ELSE "true"
  ELSE "false"

\* testBackendConnection without its catch clause.
TestBackendConnection_NoCatch(fetch, body) == HealthTry(fetch, body)

\* try { ... } catch (error) { return false; }
TestBackendConnection(fetch, body) ==
  IF HealthTry(fetch, body) = "throw" THEN "false" ELSE HealthTry(fetch, body)

\* testConnection of the effect: setBackendConnected(connected), or
\* setBackendConnected(false) when the call throws.
ConnectedAfter(result) == IF result = "throw" THEN "false" ELSE result

\* The text of the status display.
StatusText ==
  IF backendConnected = "null" THEN "Connecting..."
  ELSE IF backendConnected = "true" THEN "Backend Connected"
  ELSE "Backend Disconnected"

\* testConnection() on mount and on every tick of the 30 s interval: the
\* fetch is issued.
HealthCheckStart(c) ==
  /\ healthChecks[c] = "idle"
  /\ healthChecks' = [healthChecks EXCEPT ![c] = "fetch"]
  /\ healthLast' = [NoHealth EXCEPT !.op = "start", !.check = c,
                                    !.before = backendConnected]
  /\ UNCHANGED backendConnected
  /\ UNCHANGED notAppVars

\* The fetch of check c settles and, when the response is ok, the body is
\* read; testBackendConnection returns and testConnection sets the status.
HealthCheckSettle(c, fetch, body) ==
  /\ healthChecks[c] = "fetch"
  /\ healthChecks' = [healthChecks EXCEPT ![c] = "idle"]
  /\ LET result == TestBackendConnection(fetch, body) IN
       /\ backendConnected' = ConnectedAfter(result)
       /\ healthLast' = [op |-> "settle", check |-> c, fetch |-> fetch,
                         body |-> body, result |-> result,
                         before |-> backendConnected]
  /\ UNCHANGED notAppVars

NextHealth ==
  \/ \E c \in 1..MaxChecks : HealthCheckStart(c)
  \/ \E c \in 1..MaxChecks, fetch \in FetchOutcomes, body \in Bodies :
       HealthCheckSettle(c, fetch, body)

SpecHealth == Init /\ [][NextHealth]_vars

(***************************************************************************)
(* ManualAgentCanvas.tsx: running a flow.  A run is the call of            *)
(* handleRunFlow that passed the checks: its request is under way          *)
(* ("request"), then in online mode its poll interval is set ("polling")   *)
(* and every tick adds a status request to those under way (pending), and  *)
(* then it is "over", its interval cleared.  Messages of the system carry agent 0 and an id below 1; the    *)
(* k-th message of the history the backend keeps for run r has id          *)
(* 100 * r + k.                                                            *)
(***************************************************************************)
\* The lengths of the message histories the backend returns.
HistSizes == {0, 1, 2}

Prompts == {"", "  ", "build"}
\* String.prototype.trim on the prompts.
Trim(text) ==
  CASE text = "  " -> ""
    [] text = " build " -> "build"
    [] OTHER -> text

SystemMessage(id) ==
  [id |-> id, agentId |-> 0, fromAgent |-> 0, toAgent |-> 0, timestamp |-> 0]
Loading == SystemMessage(0)        \* id: 'loading-1'
Progress == SystemMessage(-1)      \* id: `progress-${Date.now()}`
Completion == SystemMessage(-2)    \* id: `completion-${Date.now()}`
StatusMessage == SystemMessage(-3) \* id: `status-${Date.now()}`
TestMessage == SystemMessage(-4)   \* id: `test-${Date.now()}`

\* message_history of run r with k messages, mapped to AgentMessage.
History(r, k) ==
  [i \in 1..k |-> [id |-> 100 * r + i, agentId |-> 1, fromAgent |-> 1,
                   toAgent |-> 2, timestamp |-> i]]

\* messages.filter(msg => msg.id !== 'loading-1')
WithoutLoading(ms) == LET Keep(m) == m.id # Loading.id IN SelectSeq(ms, Keep)

\* What the backend answers: the call throws, or a response with a
\* workflow id or without, a status and a history of k messages.
Statuses == {"running", "completed", "error"}
Responses ==
  {[throws |-> TRUE, hasId |-> FALSE, status |-> "error", k |-> 0]}
    \cup [throws : {FALSE}, hasId : BOOLEAN, status : Statuses, k : HistSizes]

FreeRuns == {r \in 1..MaxRuns : runs[r].pc = "none"}
\* The requests that are under way.
Outstanding ==
  {r \in 1..MaxRuns : runs[r].pc = "request" \/ runs[r].pending > 0}

\* if (!prompt.trim()) ... if (boxes.length === 0) ...
RunIsRejected_PromptOnly == Trim(prompt) = ""
RunIsRejected == Trim(prompt) = "" \/ Len(boxes) = 0

SetRun(r, pc) == [runs EXCEPT ![r].pc = pc]

\* onChange of the prompt input, which is disabled while a flow runs.
SetPrompt(text) ==
  /\ ~isRunning
  /\ prompt # text
  /\ prompt' = text
  /\ UNCHANGED <<isOnlineMode, isRunning, wsSent, runs, runLast>>
  /\ UNCHANGED <<canvasVars, notRunVars>>

\* The Offline and Online buttons.
SetIsOnlineMode(mode) ==
  /\ isOnlineMode # mode
  /\ isOnlineMode' = mode
  /\ UNCHANGED <<prompt, isRunning, wsSent, runs, runLast>>
  /\ UNCHANGED <<canvasVars, notRunVars>>

\* handleRunFlow up to its first await; the Run Flow button is disabled
\* while a flow runs.  A rejected call alerts and returns.  Otherwise the
\* log is cleared and, in offline mode, the loading message is shown and a
\* test message is sent to the websocket before the request.
RunFlow ==
  /\ ~isRunning
  /\ runLast' = IF Trim(prompt) = "" THEN "blank"
                ELSE IF Len(boxes) = 0 THEN "noBoxes" ELSE "started"
  /\ IF RunIsRejected THEN
       /\ UNCHANGED <<isRunning, wsSent, runs, agentMessages, msgResult>>
     ELSE
       /\ FreeRuns # {}
       /\ LET r == CHOOSE x \in FreeRuns : \A y \in FreeRuns : x <= y IN
            runs' = [runs EXCEPT ![r] = [pc |-> "request",
                                         online |-> isOnlineMode,
                                         pending |-> 0]]
       /\ isRunning' = TRUE
       /\ agentMessages' = IF isOnlineMode THEN <<>> ELSE <<Loading>>
       /\ wsSent' = IF isOnlineMode THEN wsSent ELSE wsSent + 1
       /\ msgResult' = Shown(agentMessages', msgConn)
  /\ UNCHANGED <<prompt, isOnlineMode>>
  /\ UNCHANGED <<boxes, connections, connectDrag, dragId, resizeId, offset,
                 resizeStart, resizeBox, dragOverHandle, selectedConnectionId,
                 popupStates, resizingPopup, draggingPopup, selectedBoxId,
                 connectMode, pinnedBoxes, nextId, last, msgConn>>
  /\ UNCHANGED notRunVars

\* What only the log and the runs change.
RunFrame ==
  /\ UNCHANGED <<boxes, connections, connectDrag, dragId, resizeId, offset,
                 resizeStart, resizeBox, dragOverHandle, selectedConnectionId,
                 popupStates, resizingPopup, draggingPopup, selectedBoxId,
                 connectMode, pinnedBoxes, nextId, last, msgConn>>
  /\ UNCHANGED <<prompt, isOnlineMode, wsSent, runLast>>
  /\ UNCHANGED notRunVars

\* runOnlineWorkflow settles: the history or the loading message is shown,
\* the poll interval is set when the workflow has an id and is not over,
\* and finally isRunning is reset.
OnlineResponse(r, resp) ==
  /\ runs[r].pc = "request"
  /\ runs[r].online
  /\ IF resp.throws THEN
       /\ runs' = SetRun(r, "over")
       /\ UNCHANGED agentMessages
     ELSE
       /\ agentMessages' = IF resp.k > 0 THEN History(r, resp.k)
                                         ELSE <<Loading>>
       /\ runs' = IF resp.hasId /\ resp.status \notin {"completed", "error"}
                    THEN SetRun(r, "polling") ELSE SetRun(r, "over")
  /\ isRunning' = FALSE
  /\ msgResult' = Shown(agentMessages', msgConn)
  /\ RunFrame

\* runManualFlow settles: the messages of the response replace the log, or
\* the loading message is taken out of it, and finally isRunning is reset.
OfflineResponse(r, resp) ==
  /\ runs[r].pc = "request"
  /\ ~runs[r].online
  /\ IF resp.throws THEN UNCHANGED agentMessages
     ELSE agentMessages' = IF resp.k > 0 THEN WithoutLoading(History(r, resp.k))
                                         ELSE WithoutLoading(agentMessages)
  /\ runs' = SetRun(r, "over")
  /\ isRunning' = FALSE
  /\ msgResult' = Shown(agentMessages', msgConn)
  /\ RunFrame

\* A tick of the 500 ms interval: getOnlineWorkflowStatus is called,
\* whether or not the request of an earlier tick has settled.
PollTick(r) ==
  /\ runs[r].pc = "polling"
  /\ runs[r].pending < MaxPending
  /\ runs' = [runs EXCEPT ![r].pending = @ + 1]
  /\ UNCHANGED <<agentMessages, msgResult, isRunning>>
  /\ RunFrame

\* A log that is set to the history and gets no progress indicator.
AfterPoll_NoProgress(r, resp) ==
  LET filteredMessages == WithoutLoading(History(r, resp.k))
  IN IF resp.status \in {"completed", "error"}
       THEN Append(filteredMessages, Completion)
       ELSE filteredMessages

\* The log after the callback of a status request: the history without
\* the loading message, a progress indicator while the workflow runs and
\* has messages, a completion message when it is over.
AfterPoll(r, resp) ==
  LET filteredMessages == WithoutLoading(History(r, resp.k))
      withProgress ==
        IF resp.status = "running" /\ Len(filteredMessages) > 0
          THEN Append(filteredMessages, Progress) ELSE filteredMessages
  IN IF resp.status \in {"completed", "error"}
       THEN Append(withProgress, Completion)
       ELSE withProgress

\* A status request settles, also one that was under way when the
\* interval was cleared; an error or the end of the workflow clears the
\* interval.
PollResponse(r, resp) ==
  /\ runs[r].pending > 0
  /\ IF resp.throws THEN
       /\ runs' = [runs EXCEPT ![r].pc = "over", ![r].pending = @ - 1]
       /\ UNCHANGED agentMessages
     ELSE
       /\ agentMessages' = AfterPoll(r, resp)
       /\ runs' = IF resp.status \in {"completed", "error"}
                    THEN [runs EXCEPT ![r].pc = "over", ![r].pending = @ - 1]
                    ELSE [runs EXCEPT ![r].pending = @ - 1]
  /\ msgResult' = Shown(agentMessages', msgConn)
  /\ UNCHANGED isRunning
  /\ RunFrame

\* The websocket event workflow_status.
WorkflowStatus(status) ==
  /\ status \in {"completed", "error"}
  /\ Len(agentMessages) < MaxMsgs
  /\ isRunning' = FALSE
  /\ agentMessages' = Append(agentMessages, StatusMessage)
  /\ msgResult' = Shown(agentMessages', msgConn)
  /\ UNCHANGED runs
  /\ RunFrame

\* The websocket event test_response.
TestResponse ==
  /\ Len(agentMessages) < MaxMsgs
  /\ agentMessages' = Append(agentMessages, TestMessage)
  /\ msgResult' = Shown(agentMessages', msgConn)
  /\ UNCHANGED <<runs, isRunning>>
  /\ RunFrame

\* Running flows: the prompt, the mode, a box that comes and goes, runs in
\* both modes with every answer of the backend, and the websocket event
\* that ends a run.  The last run is left unused and a status request
\* settles before the next tick.
NextRun ==
  \/ boxes = <<>> /\ CreateBox
  \/ ClearCanvas
  \/ \E text \in Prompts : SetPrompt(text)
  \/ \E mode \in BOOLEAN : SetIsOnlineMode(mode)
  \/ (RunIsRejected \/ \E r \in FreeRuns : r < MaxRuns) /\ RunFlow
  \/ \E r \in 1..MaxRuns, resp \in Responses : OnlineResponse(r, resp)
  \/ \E r \in 1..MaxRuns, resp \in Responses : OfflineResponse(r, resp)
  \/ \E r \in 1..MaxRuns : runs[r].pending = 0 /\ PollTick(r)
  \/ \E r \in 1..MaxRuns, resp \in Responses : PollResponse(r, resp)
  \/ \E status \in Statuses : WorkflowStatus(status)

SpecRun == Init /\ [][NextRun]_vars

(***************************************************************************)
(* ManualAgentCanvas.tsx: export, import and the viewport buttons.         *)
(***************************************************************************)
\* What the round trip is about.
Saved == <<boxes, connections, pinnedBoxes, prompt, canvasScale, canvasOffset>>

\* An export that leaves the pinned boxes out.
ExportData_NoPins ==
  [version |-> Num(1), prompt |-> Str(prompt), boxes |-> Arr(boxes),
   connections |-> Arr(connections), pinnedBoxes |-> Other("absent", {}),
   canvasScale |-> Num(canvasScale), canvasOffset |-> Obj(canvasOffset)]

\* exportData of handleExport as JSON.stringify writes it and JSON.parse
\* reads it back (the timestamp is not read by the import).
ExportData ==
  [version |-> Num(1), prompt |-> Str(prompt), boxes |-> Arr(boxes),
   connections |-> Arr(connections), pinnedBoxes |-> Obj(pinnedBoxes),
   canvasScale |-> Num(canvasScale), canvasOffset |-> Obj(canvasOffset)]

\* handleExport: the document is downloaded.
Export ==
  /\ exported' = [file |-> [kind |-> "json", data |-> ExportData],
                  at |-> Saved]
  /\ exported' # exported
  /\ UNCHANGED <<canvasScale, canvasOffset, reading, fileLast>>
  /\ UNCHANGED <<canvasVars, runVars, notFileVars>>

\* The zoom buttons: Math.min(2, prev + 0.1), Math.max(0.5, prev - 0.1).
ZoomIn ==
  /\ canvasScale' = IF canvasScale + 1 <= 20 THEN canvasScale + 1 ELSE 20
  /\ UNCHANGED <<canvasOffset, exported, reading, fileLast>>
  /\ UNCHANGED <<canvasVars, runVars, notFileVars>>

ZoomOut ==
  /\ canvasScale' = IF canvasScale - 1 >= 5 THEN canvasScale - 1 ELSE 5
  /\ UNCHANGED <<canvasOffset, exported, reading, fileLast>>
  /\ UNCHANGED <<canvasVars, runVars, notFileVars>>

\* A saved canvas: two boxes, a connection, a pinned box, a prompt and a
\* viewport.
SampleData ==
  [version |-> Num(1), prompt |-> Str("build"), boxes |-> Arr(FileBoxes(2)),
   connections |-> Arr(<<FileConnection(1, 2)>>), pinnedBoxes |-> Obj({2}),
   canvasScale |-> Num(11), canvasOffset |-> Obj(<<5, 5>>)]
SampleFile == [kind |-> "json", data |-> SampleData]

\* Files that are no saved canvas: text that does not parse, the document
\* null, and documents whose boxes or connections are missing or no array.
MalformedFiles ==
  {[kind |-> "text", data |-> EmptyData],
   [kind |-> "null", data |-> EmptyData],
   [kind |-> "json", data |-> [SampleData EXCEPT !.boxes = Other("absent", <<>>)]],
   [kind |-> "json", data |-> [SampleData EXCEPT !.boxes = Other("object", <<>>)]],
   [kind |-> "json", data |-> [SampleData EXCEPT !.connections = Other("absent", <<>>)]],
   [kind |-> "json", data |-> [SampleData EXCEPT !.connections = Other("string", <<>>)]]}

\* The files the user can choose.
Files == MalformedFiles \cup {SampleFile} \cup ({exported.file} \ {NoFile})

\* handleImportChange: the chosen file is given to a FileReader.
ImportChange(file) ==
  /\ reading = NoFile
  /\ reading' = file
  /\ UNCHANGED <<canvasScale, canvasOffset, exported, fileLast>>
  /\ UNCHANGED <<canvasVars, runVars, notFileVars>>

\* A test that looks at the boxes only.
Accepted_BoxesOnly(file) ==
  /\ file.kind = "json"
  /\ file.data.boxes.t = "array"

\* JSON.parse does not throw, and
\* data && Array.isArray(data.boxes) && Array.isArray(data.connections)
Accepted(file) ==
  /\ file.kind = "json"
  /\ file.data.boxes.t = "array"
  /\ file.data.connections.t = "array"

\* The largest id of a list of boxes, 0 for no boxes.
RECURSIVE MaxId(_)
MaxId(bs) == IF bs = <<>> THEN 0 ELSE Max(bs[1].id, MaxId(Tail(bs)))

\* reader.onload: a file that is accepted replaces boxes, connections and
\* pinned boxes, the prompt, scale and offset it has, and resets messages,
\* selection, connect mode and popups; any other file changes nothing.
ReaderLoad ==
  /\ reading # NoFile
  /\ IF Accepted(reading) THEN
       LET data == reading.data IN
         /\ boxes' = data.boxes.v
         /\ connections' = data.connections.v
         /\ pinnedBoxes' = IF data.pinnedBoxes.t = "absent" THEN {}
                           ELSE data.pinnedBoxes.v
         /\ prompt' = IF data.prompt.t = "string" THEN data.prompt.v
                      ELSE prompt
         /\ canvasScale' = IF data.canvasScale.t = "number"
                             THEN data.canvasScale.v ELSE canvasScale
         /\ canvasOffset' = IF data.canvasOffset.t = "object"
                              THEN data.canvasOffset.v ELSE canvasOffset
         /\ agentMessages' = <<>>
         /\ selectedBoxId' = 0
         /\ selectedConnectionId' = NoConn
         /\ connectDrag' = NoDrag
         /\ dragOverHandle' = NoHandle
         /\ connectMode' = FALSE
         /\ popupStates' = NoPopupStates
         /\ msgResult' = Shown(agentMessages', msgConn)
         /\ nextId' = Max(nextId, MaxId(boxes') + 1)
     ELSE
       /\ UNCHANGED <<boxes, connections, pinnedBoxes, prompt, canvasScale,
                      canvasOffset, agentMessages, selectedBoxId,
                      selectedConnectionId, connectDrag, dragOverHandle,
                      connectMode, popupStates, msgResult, nextId>>
  /\ reading' = NoFile
  /\ fileLast' = [op |-> IF Accepted(reading) THEN "imported" ELSE "failed",
                  own |-> reading = exported.file,
                  wasEmpty |-> boxes = <<>>]
  /\ UNCHANGED <<dragId, resizeId, offset, resizeStart, resizeBox,
                 resizingPopup, draggingPopup, last, msgConn>>
  /\ UNCHANGED <<isOnlineMode, isRunning, wsSent, runs, runLast>>
  /\ UNCHANGED exported
  /\ UNCHANGED notFileVars

\* Saving and loading: boxes are created and pinned, the prompt is typed,
\* the view is zoomed in one step, the canvas is exported once, cleared,
\* and imported from the files.
FilePrompts == {"build"}
ZoomLevels == {10, 11}
NextFile ==
  \/ CreateBox
  \/ \E id \in BoxIds : TogglePin(id)
  \/ \E text \in FilePrompts : SetPrompt(text)
  \/ canvasScale + 1 \in ZoomLevels /\ ZoomIn
  \/ canvasScale - 1 \in ZoomLevels /\ ZoomOut
  \/ exported = NoExport /\ Export
  \/ ClearCanvas
  \/ \E file \in Files : ImportChange(file)
  \/ ReaderLoad

SpecFile == Init /\ [][NextFile]_vars

(***************************************************************************)
(* App.tsx: handlePromptSubmit.  A prompt pipeline is a call that passed   *)
(* the guard and the connection test; it awaits one chat request.          *)
(***************************************************************************)
\* A guard that refuses nothing.
SubmitIsRefused_Never == FALSE

\* if (isProcessing) return;
SubmitIsRefused == isProcessing

\* The pipelines whose chat request is under way.
ChatsInFlight == {p \in 1..MaxPrompts : chats[p] = "pending"}

\* The pipeline a submission would start.
FreePrompts ==
  {p \in 1..MaxPrompts :
     chats[p] = "idle" /\ \A q \in 1..(p - 1) : chats[q] # "idle"}

\* setInteractions(prev => [...prev, block]) for blocks of the types given,
\* and the visualization rendered with the longer list.
AppendInteractions(types, time) ==
  /\ interactions' =
       interactions \o
         [i \in 1..Len(types) |->
            [id |-> Len(interactions) + i, type |-> types[i],
             timestamp |-> time]]
  /\ commMessages' = PopupMessages(interactions', selectedConnection)
  /\ conversationGroups' = GroupMessagesByConversation(commMessages')
  /\ UNCHANGED selectedConnection

\* handlePromptSubmit up to its await: nothing while a pipeline is being
\* processed; an error block while the backend is known to be
\* disconnected; else the guard is set, the start block is added and the
\* chat request is sent.
PromptSubmit(time) ==
  /\ IF SubmitIsRefused THEN
       /\ submitLast' = "busy"
       /\ UNCHANGED <<isProcessing, chats>>
       /\ UNCHANGED vizVars
     ELSE IF backendConnected = "false" THEN
       /\ submitLast' = "disconnected"
       /\ AppendInteractions(<<"coordinator">>, time)
       /\ UNCHANGED <<isProcessing, chats>>
     ELSE
       \E p \in FreePrompts :
         /\ submitLast' = "started"
         /\ isProcessing' = TRUE
         /\ chats' = [chats EXCEPT ![p] = "pending"]
         /\ AppendInteractions(<<"coordinator">>, time)
  /\ submitLast' # submitLast \/ interactions' # interactions
  /\ UNCHANGED notPromptVars

\* What chatWithAgents can give: a rejection (the fetch failed or the
\* status was not ok), or the body with its type and the parts it has.
ChatResponses ==
  {[kind |-> "reject", type |-> "", code |-> FALSE, tests |-> FALSE,
    results |-> FALSE],
   [kind |-> "json", type |-> "error", code |-> FALSE, tests |-> FALSE,
    results |-> FALSE],
   [kind |-> "json", type |-> "error", code |-> TRUE, tests |-> FALSE,
    results |-> FALSE],
   [kind |-> "json", type |-> "coding", code |-> TRUE, tests |-> TRUE,
    results |-> TRUE]}

\* The request throws, or the answer is an error with neither code nor
\* tests.
ChatThrows(resp) ==
  \/ resp.kind = "reject"
  \/ resp.type = "error" /\ ~resp.code /\ ~resp.tests

\* The blocks of an answer: coder, tester, runner for the parts it has, the
\* tester's error block, and the summary of the coordinator.
ChatBlocks(resp) ==
  (IF resp.code THEN <<"coder">> ELSE <<>>)
    \o (IF resp.tests THEN <<"tester">> ELSE <<>>)
    \o (IF resp.results THEN <<"runner">> ELSE <<>>)
    \o (IF resp.type = "error" THEN <<"tester">> ELSE <<>>)
    \o <<"coordinator">>

\* The chat request of pipeline p settles: the try block, or the catch
\* block with its error block; the finally block releases the guard.
ChatResponse(p, resp, time) ==
  /\ chats[p] = "pending"
  /\ IF ChatThrows(resp) THEN
       /\ AppendInteractions(<<"coordinator">>, time)
       /\ chats' = [chats EXCEPT ![p] = "failed"]
     ELSE
       /\ AppendInteractions(ChatBlocks(resp), time)
       /\ chats' = [chats EXCEPT ![p] = "done"]
  /\ isProcessing' = FALSE
  /\ UNCHANGED submitLast
  /\ UNCHANGED notPromptVars

(***************************************************************************)
(* AIChatPanel.tsx: handleSubmit, processIteration and stopGeneration.  A  *)
(* pipeline is a call of handleSubmit that passed the guard; pc names the  *)
(* request it awaits, signal the controller whose signal the request was   *)
(* given (0 for none).  A block keeps its id, isActive, progress and       *)
(* iteration, and the pipeline that appended it.                           *)
(***************************************************************************)
MAX_ITERATIONS == 5

InFlightPcs ==
  {"generate-code", "generate-test", "run-test", "more-tests", "refine-code"}

\* The pipelines that await a request.
PipelinesInFlight == {p \in 1..MaxPipelines : pipelines[p].pc \in InFlightPcs}

\* The pipeline a submission would start.
FreePipelines ==
  {p \in 1..MaxPipelines :
     pipelines[p].pc = "idle" /\ \A q \in 1..(p - 1) : pipelines[q].pc # "idle"}

ActiveBlock(id, iteration, p) ==
  [id |-> id, isActive |-> TRUE, progress |-> 0, iteration |-> iteration,
   by |-> p]
DoneBlock(id, iteration, p) ==
  [id |-> id, isActive |-> FALSE, progress |-> 100, iteration |-> iteration,
   by |-> p]
\* The block of the outer catch of handleSubmit.
ErrorBlock(p) ==
  [id |-> 0, isActive |-> FALSE, progress |-> 0, iteration |-> 0, by |-> p]

\* setInterval for the blocks with one of the ids at the iteration.
Interval(p, ids, iteration) == [by |-> p, ids |-> ids, iteration |-> iteration]

\* The interval of the request pipeline p awaits.
IntervalOf(p) ==
  LET it == pipelines[p].iteration IN
    CASE pipelines[p].pc = "generate-code" -> Interval(p, {0, 1}, 0)
      [] pipelines[p].pc = "generate-test" -> Interval(p, {2}, 0)
      [] pipelines[p].pc = "run-test" -> Interval(p, {3}, it)
      [] pipelines[p].pc = "more-tests" -> Interval(p, {2}, it)
      [] pipelines[p].pc = "refine-code" -> Interval(p, {1}, it)
      [] OTHER -> Interval(p, {}, it)

\* signal: abortControllerRef.current?.signal
FetchSignal == abortController

\* The finally block of handleSubmit: setIsProcessing(false) and
\* abortControllerRef.current = null.
Finally(p, pc) ==
  /\ pipelines' = [pipelines EXCEPT ![p] = [NoPipeline EXCEPT !.pc = pc]]
  /\ chatIsProcessing' = FALSE
  /\ abortController' = 0

\* Pipeline p goes on to await the next request.
Await(p, pc, iteration) ==
  /\ pipelines' = [pipelines EXCEPT
                     ![p] = [pc |-> pc, iteration |-> iteration,
                             signal |-> FetchSignal]]
  /\ UNCHANGED <<chatIsProcessing, abortController>>

\* handleSubmit up to its first await; the input is disabled while a
\* pipeline is processed.
ChatSubmit ==
  /\ ~chatIsProcessing
  /\ \E p \in FreePipelines :
       /\ chatIsProcessing' = TRUE
       /\ abortController' = p
       /\ aiInteractions' = <<ActiveBlock(0, 0, p), ActiveBlock(1, 0, p)>>
       /\ intervals' = intervals \cup {Interval(p, {0, 1}, 0)}
       /\ pipelines' = [pipelines EXCEPT
                          ![p] = [pc |-> "generate-code", iteration |-> 0,
                                  signal |-> p]]
  /\ UNCHANGED ticks
  /\ UNCHANGED notChatVars

\* /generate-code answered: the interval is cleared, the results and the
\* block of the test generator are added and /generate-test is called;
\* reading the signal of no controller throws, which the catch blocks
\* handle as an error.
CodeGenerated(p) ==
  /\ pipelines[p].pc = "generate-code"
  /\ LET blocks == aiInteractions \o
                     <<DoneBlock(0, 0, p), DoneBlock(1, 0, p),
                       ActiveBlock(2, 0, p)>>
     IN IF abortController = 0 THEN
          /\ aiInteractions' = Append(blocks, ErrorBlock(p))
          /\ intervals' = intervals \ {IntervalOf(p)}
          /\ Finally(p, "failed")
        ELSE
          /\ aiInteractions' = blocks
          /\ intervals' = (intervals \ {IntervalOf(p)})
                            \cup {Interval(p, {2}, 0)}
          /\ Await(p, "generate-test", 0)
  /\ UNCHANGED ticks
  /\ UNCHANGED notChatVars

\* A limit that lets one more iteration through.
AtLimit_OneLate(iteration) == iteration > MAX_ITERATIONS

\* if (iteration >= MAX_ITERATIONS)
AtLimit(iteration) == iteration >= MAX_ITERATIONS

\* processIteration(code, testCode, iteration) up to its await, after the
\* blocks given: at the limit the coordinator's block is added and
\* handleSubmit ends; else the runner's block is added and /run-test is
\* called.
ProcessIteration(p, blocks, iteration) ==
  IF AtLimit(iteration) THEN
    /\ aiInteractions' = Append(blocks, DoneBlock(0, iteration, p))
    /\ intervals' = intervals \ {IntervalOf(p)}
    /\ Finally(p, "done")
  ELSE
    /\ aiInteractions' = Append(blocks, ActiveBlock(3, iteration, p))
    /\ intervals' = (intervals \ {IntervalOf(p)})
                      \cup {Interval(p, {3}, iteration)}
    /\ Await(p, "run-test", iteration)

\* /generate-test answered in handleSubmit.
TestsGenerated(p) ==
  /\ pipelines[p].pc = "generate-test"
  /\ ProcessIteration(p, aiInteractions \o
                           <<DoneBlock(0, 0, p), DoneBlock(2, 0, p)>>, 0)
  /\ UNCHANGED ticks
  /\ UNCHANGED notChatVars

\* /run-test answered: analyzeTestResults finds missing tests ("missing"),
\* failures that need a fix ("fix") or neither ("pass").
RunResults == {"pass", "missing", "fix"}
TestsRun(p, result) ==
  /\ pipelines[p].pc = "run-test"
  /\ LET it == pipelines[p].iteration
         blocks == aiInteractions \o
                     <<DoneBlock(3, it, p), ActiveBlock(0, it, p),
                       DoneBlock(0, it, p)>>
     IN CASE result = "missing" ->
               /\ aiInteractions' = Append(blocks, ActiveBlock(2, it, p))
               /\ intervals' = (intervals \ {IntervalOf(p)})
                                 \cup {Interval(p, {2}, it)}
               /\ Await(p, "more-tests", it)
          [] result = "fix" ->
               /\ aiInteractions' = Append(blocks, ActiveBlock(1, it, p))
               /\ intervals' = (intervals \ {IntervalOf(p)})
                                 \cup {Interval(p, {1}, it)}
               /\ Await(p, "refine-code", it)
          [] OTHER ->
               /\ aiInteractions' = blocks
               /\ intervals' = intervals \ {IntervalOf(p)}
               /\ Finally(p, "done")
  /\ UNCHANGED ticks
  /\ UNCHANGED notChatVars

\* /generate-test or /refine-code answered in processIteration: the result
\* is added and the next iteration is processed.
IterationAnswered(p) ==
  /\ pipelines[p].pc \in {"more-tests", "refine-code"}
  /\ LET it == pipelines[p].iteration
         id == IF pipelines[p].pc = "more-tests" THEN 2 ELSE 1
     IN ProcessIteration(p, Append(aiInteractions, DoneBlock(id, it, p)),
                         it + 1)
  /\ UNCHANGED ticks
  /\ UNCHANGED notChatVars

\* A request fails (the network, or a body that is no JSON) without an
\* abort: the catch blocks clear the interval and add the error block.
RequestFailed(p) ==
  /\ pipelines[p].pc \in InFlightPcs
  /\ aiInteractions' = Append(aiInteractions, ErrorBlock(p))
  /\ intervals' = intervals \ {IntervalOf(p)}
  /\ Finally(p, "failed")
  /\ UNCHANGED ticks
  /\ UNCHANGED notChatVars

\* stopGeneration by the stop button, which is shown while isProcessing:
\* the controller is aborted, which rejects the requests that were given
\* its signal with an AbortError and runs the catch blocks (they rethrow
\* before clearInterval) and the finally block of their pipelines before
\* the next event; the blocks are set inactive.
StopGeneration ==
  /\ chatIsProcessing
  /\ LET hit == {p \in PipelinesInFlight :
                   abortController # 0 /\ pipelines[p].signal = abortController}
     IN pipelines' = [p \in 1..MaxPipelines |->
                        IF p \in hit THEN [NoPipeline EXCEPT !.pc = "stopped"]
                        ELSE pipelines[p]]
  /\ abortController' = 0
  /\ chatIsProcessing' = FALSE
  /\ aiInteractions' =
       [i \in 1..Len(aiInteractions) |->
          [aiInteractions[i] EXCEPT
             !.isActive = FALSE,
             !.progress = IF aiInteractions[i].progress = 100 THEN 100
                          ELSE 0]]
  /\ UNCHANGED <<intervals, ticks>>
  /\ UNCHANGED notChatVars

\* A tick of an interval that is set: the active blocks with its ids at its
\* iteration advance by 5 up to 90.
MaxTicks == 1        \* ticks of the intervals in one behaviour
IntervalTick(interval) ==
  /\ interval \in intervals
  /\ ticks.n < MaxTicks
  /\ ticks' = [n |-> ticks.n + 1, by |-> interval.by]
  /\ aiInteractions' =
       [i \in 1..Len(aiInteractions) |->
          LET block == aiInteractions[i] IN
            IF /\ block.id \in interval.ids
               /\ block.isActive
               /\ block.iteration = interval.iteration
              THEN [block EXCEPT !.progress = IF block.progress + 5 <= 90
                                                THEN block.progress + 5
                                                ELSE 90]
              ELSE block]
  /\ UNCHANGED <<chatIsProcessing, abortController, pipelines, intervals>>
  /\ UNCHANGED notChatVars

\* The intervals a tick can come from.
AllIntervals ==
  {Interval(p, ids, it) : p \in 1..MaxPipelines,
                          ids \in {{0, 1}, {1}, {2}, {3}},
                          it \in 0..(MAX_ITERATIONS - 1)}

\* Prompts of the application and of the chat panel: submissions while a
\* pipeline is processed or not, with the backend connected or, after a
\* health check that failed, disconnected, the answers and failures of the
\* requests, and the stop button; the tests of the chat panel pass.
PromptTimes == {0}
PromptResults == {"pass"}
NextPrompt ==
  \/ HealthCheckStart(1)
  \/ HealthCheckSettle(1, "rejected", "unreadable")
  \/ \E time \in PromptTimes : Len(interactions) < MaxBlocks /\ PromptSubmit(time)
  \/ \E p \in 1..MaxPrompts, resp \in ChatResponses, time \in PromptTimes :
       ChatResponse(p, resp, time)
  \/ ChatSubmit
  \/ \E p \in 1..MaxPipelines : CodeGenerated(p)
  \/ \E p \in 1..MaxPipelines : TestsGenerated(p)
  \/ \E p \in 1..MaxPipelines, result \in PromptResults : TestsRun(p, result)
  \/ \E p \in 1..MaxPipelines : RequestFailed(p)
  \/ StopGeneration

SpecPrompt == Init /\ [][NextPrompt]_vars

\* The chat panel with its stop button and its progress intervals; the
\* tests fail in the first MaxRounds iterations at most.
MaxRounds == 1       \* iterations of a pipeline whose tests fail
NextStop ==
  \/ ChatSubmit
  \/ \E p \in 1..MaxPipelines : CodeGenerated(p)
  \/ \E p \in 1..MaxPipelines : TestsGenerated(p)
  \/ \E p \in 1..MaxPipelines, result \in RunResults :
       /\ result = "pass" \/ pipelines[p].iteration < MaxRounds
       /\ TestsRun(p, result)
  \/ \E p \in 1..MaxPipelines : IterationAnswered(p)
  \/ \E p \in 1..MaxPipelines : RequestFailed(p)
  \/ StopGeneration
  \/ \E interval \in AllIntervals : IntervalTick(interval)

SpecStop == Init /\ [][NextStop]_vars

\* Pinning and dragging: boxes are created, pinned and unpinned, pressed,
\* moved (by nothing, or right and down) and released.
PinPts == {<<60, 60>>, <<200, 150>>}
NextPin ==
  \/ CreateBox
  \/ \E id \in BoxIds : TogglePin(id)
  \/ \E id \in BoxIds, pt \in MousePts : BoxMouseDown(id, pt)
  \/ \E pt \in PinPts : CanvasMouseMove(pt)
  \/ CanvasMouseUp

SpecPin == Init /\ [][NextPin]_vars

\* Dragging and resizing boxes that are deleted meanwhile, by the trash
\* button or by the Delete key on the selected box.
BodyTarget == [tag |-> "body", editable |-> FALSE]
NextDrag ==
  \/ CreateBox
  \/ \E id \in BoxIds, pt \in MousePts : BoxMouseDown(id, pt)
  \/ \E id \in BoxIds, pt \in MousePts : ResizeMouseDown(id, pt)
  \/ \E pt \in PinPts : CanvasMouseMove(pt)
  \/ CanvasMouseUp
  \/ \E id \in BoxIds : DeleteBoxClick(id)
  \/ KeyDown("Delete", BodyTarget)

SpecDrag == Init /\ [][NextDrag]_vars

\* A file whose only box is box 1 and whose connection goes from box 1 to
\* a box 2 that the file does not hold: JSON.parse reads it, boxes and
\* connections are arrays.
DanglingFile ==
  [kind |-> "json", data |-> [SampleData EXCEPT !.boxes = Arr(FileBoxes(1))]]

\* Importing: the user builds a canvas, chooses a saved canvas or a file
\* with a connection to a missing box, the reader loads it, the canvas is
\* cleared.
ImportFiles == {SampleFile, DanglingFile}
NextImport ==
  \/ CreateBox
  \/ \E id \in BoxIds : TogglePin(id)
  \/ \E id \in BoxIds, pt \in MousePts : BoxMouseDown(id, pt)
  \/ CanvasMouseUp
  \/ ClearCanvas
  \/ \E file \in ImportFiles : ImportChange(file)
  \/ ReaderLoad

SpecImport == Init /\ [][NextImport]_vars

\* What a status request is answered with in the polling specification.
PollAnswers ==
  [throws : {FALSE}, hasId : {TRUE}, status : {"running", "completed"},
   k : {1}]
    \cup {[throws |-> TRUE, hasId |-> FALSE, status |-> "error", k |-> 0]}

\* Online workflows: a box, a prompt, online mode, runs that start one
\* after the other as soon as the button is enabled again, the ticks of
\* their poll intervals, the answers to the status requests in any order,
\* and the websocket event that ends a workflow, sent when a workflow was
\* started and the log shows no such event.
NextPoll ==
  \/ boxes = <<>> /\ CreateBox
  \/ SetPrompt("build")
  \/ SetIsOnlineMode(TRUE)
  \/ isOnlineMode /\ RunFlow
  \/ \E r \in 1..MaxRuns, resp \in PollAnswers : OnlineResponse(r, resp)
  \/ \E r \in 1..MaxRuns : PollTick(r)
  \/ \E r \in 1..MaxRuns, resp \in PollAnswers : PollResponse(r, resp)
  \/ /\ \E r \in 1..MaxRuns : runs[r].pc \in {"polling", "over"}
     /\ \A i \in 1..Len(agentMessages) : agentMessages[i] # StatusMessage
     /\ WorkflowStatus("completed")

SpecPoll == Init /\ [][NextPoll]_vars

\* The iterations of the chat panel: submissions one after the other, the
\* answers of the requests with every result of the tests, and requests
\* that fail.
NextIter ==
  \/ ChatSubmit
  \/ \E p \in 1..MaxPipelines : CodeGenerated(p)
  \/ \E p \in 1..MaxPipelines : TestsGenerated(p)
  \/ \E p \in 1..MaxPipelines, result \in RunResults : TestsRun(p, result)
  \/ \E p \in 1..MaxPipelines : IterationAnswered(p)
  \/ \E p \in 1..MaxPipelines : RequestFailed(p)

SpecIter == Init /\ [][NextIter]_vars

\* Four times the point between the two handles of the i-th connection:
\* centerX and centerY of renderConnections (handleOffsets is 0, 0.5 or 1).
OffX2(side) == CASE side = "left" -> 0 [] side = "right" -> 2 [] OTHER -> 1
OffY2(side) == CASE side = "top" -> 0 [] side = "bottom" -> 2 [] OTHER -> 1
Center4(i) ==
  LET conn == connections[i]
      from == FindBox(conn.fromId)
      to == FindBox(conn.toId)
  IN <<(2 * from.x + from.width * OffX2(conn.fromSide))
         + (2 * to.x + to.width * OffX2(conn.toSide)),
       (2 * from.y + from.height * OffY2(conn.fromSide))
         + (2 * to.y + to.height * OffY2(conn.toSide))>>

\* Four times the position renderPopupForConnection draws the popup of the
\* i-th connection at: the stored x and y, or else
\* Math.max(0, centerX - width / 2) and Math.max(0, centerY - height / 2).
DisplayedPos4(i) ==
  LET popupState == PopupStateOf(popupStates, connections[i].id)
      width == IF popupState.hasSize THEN popupState.width
               ELSE DEFAULT_POPUP.width
      height == IF popupState.hasSize THEN popupState.height
                ELSE DEFAULT_POPUP.height
  IN IF popupState.hasPos THEN <<4 * popupState.x, 4 * popupState.y>>
     ELSE <<Max(0, Center4(i)[1] - 2 * width),
            Max(0, Center4(i)[2] - 2 * height)>>

\* A saved canvas whose second box lies to the right of and below the
\* first, so that the middle of their connection is far from the origin.
SpreadFile ==
  [kind |-> "json",
   data |-> [SampleData EXCEPT
               !.boxes = Arr([FileBoxes(2) EXCEPT ![2].x = 400,
                                                  ![2].y = 300])]]

\* Dragging popups: a saved canvas is imported, its connection is selected
\* and deselected, and its popup is grabbed by the header, moved and let go.
PopupFiles == {SampleFile, SpreadFile}
PopupPts == {<<200, 90>>, <<260, 100>>}
NextPopup ==
  \/ \E file \in PopupFiles : ImportChange(file)
  \/ ReaderLoad
  \/ \E i \in 1..Len(connections) : ConnectionClick(i)
  \/ PopupClose
  \/ \E i \in 1..Len(connections), pt \in PopupPts : PopupDragMouseDown(i, pt)
  \/ \E pt \in PopupPts : CanvasMouseMove(pt)
  \/ CanvasMouseUp

SpecPopup == Init /\ [][NextPopup]_vars

(***************************************************************************)
(* Properties.                                                             *)
(***************************************************************************)
ReferencesBox(c, id) == c.fromId = id \/ c.toId = id

\* The last operation deleted box last.box: by its trash button, or by
\* Delete/Backspace outside a text field while it was selected.
BoxDeletion(l) ==
  \/ l.op = "deleteBox"
  \/ /\ l.op = "keyDown"
     /\ l.key \in {"Delete", "Backspace"}
     /\ ~l.inText
     /\ l.box # 0

\* C1: every connection's fromId and toId are ids of boxes in the box list.
NoDanglingConnection ==
  \A i \in 1..Len(connections) :
    connections[i].fromId \in BoxIds /\ connections[i].toId \in BoxIds

SelfLoopRejected ==
  [][(last'.op = "mouseUp" /\ last'.from # 0 /\ last'.to = last'.from
        /\ draggingPopup = NoDraggingPopup /\ resizingPopup = NoResizingPopup)
       => /\ connections' = connections
          /\ connectDrag' = NoDrag
          /\ dragOverHandle' = NoHandle]_vars

\* A drag was dropped on its own box while the list held a connection.
SelfLoopRejectedWitness ==
  /\ last.op = "mouseUp"
  /\ last.from # 0
  /\ last.to = last.from
  /\ last.n > 0
  /\ Len(connections) = last.n

\* C4: a mouse-up appends a connection only if the origin box of the drag
\* and the box of the hovered handle are both in the box list.
CommitNeedsBothBoxes ==
  [][(last'.op = "mouseUp" /\ Len(connections') > Len(connections))
       => (connectDrag.fromId \in BoxIds /\ dragOverHandle.boxId \in BoxIds)]_vars

ActiveOperations ==
  (IF dragId # 0 THEN {"drag"} ELSE {})
    \cup (IF resizeId # 0 THEN {"resize"} ELSE {})
    \cup (IF connectDrag # NoDrag THEN {"connect"} ELSE {})
    \cup (IF draggingPopup # NoDraggingPopup THEN {"popupDrag"} ELSE {})
    \cup (IF resizingPopup # NoResizingPopup THEN {"popupResize"} ELSE {})

\* C6: at most one of dragId, resizeId, connectDrag, draggingPopup and
\* resizingPopup is set.
OneOperationAtATime == Cardinality(ActiveOperations) <= 1

Idle == ActiveOperations = {}

EscapeDuringDrag(l) == l.op = "keyDown" /\ l.key = "Escape" /\ l.from # 0

AtMostOnePopup == Cardinality(PopupIndices) <= 1

\* C9: Delete or Backspace outside a text field removes the selected box
\* with its connections, or else the selected connection, and clears that
\* selection; inside a text field it changes neither the boxes nor the
\* connections nor the selection.
DeleteKeyRemovesSelection ==
  [][(last'.op = "keyDown" /\ last'.key \in {"Delete", "Backspace"})
       => IF last'.inText THEN
            /\ boxes' = boxes
            /\ connections' = connections
            /\ selectedBoxId' = selectedBoxId
            /\ selectedConnectionId' = selectedConnectionId
          ELSE IF selectedBoxId # 0 THEN
            /\ \A i \in 1..Len(boxes') : boxes'[i].id # selectedBoxId
            /\ \A i \in 1..Len(connections') :
                 ~ReferencesBox(connections'[i], selectedBoxId)
            /\ Len(boxes') >= Len(boxes) - 1
            /\ selectedBoxId' = 0
          ELSE IF selectedConnectionId # NoConn THEN
            /\ boxes' = boxes
            /\ \A i \in 1..Len(connections') :
                 connections'[i].id # selectedConnectionId
            /\ \A i \in 1..Len(connections) :
                 connections[i].id # selectedConnectionId
                   => \E j \in 1..Len(connections') : connections'[j] = connections[i]
            /\ selectedConnectionId' = NoConn
          ELSE
            boxes' = boxes /\ connections' = connections]_vars

\* Delete or Backspace, outside a text field, has removed a connection
\* that was selected.
DeleteKeyWitness ==
  /\ last.op = "keyDown"
  /\ last.key \in {"Delete", "Backspace"}
  /\ ~last.inText
  /\ last.box = 0
  /\ last.n > Len(connections)
  /\ selectedConnectionId = NoConn

LogMessages == {agentMessages[i] : i \in 1..Len(agentMessages)}
ShownMessages == {msgResult[k] : k \in 1..Len(msgResult)}
AscendingByTime(ms) ==
  \A k \in 1..Len(ms), l \in 1..Len(ms) :
    k < l => ms[k].timestamp <= ms[l].timestamp

\* C10 as stated: the popup shows exactly the messages whose sender or
\* recipient is one of the two boxes, in ascending order of timestamp.
ShowsSentOrReceived ==
  msgConn # <<>> =>
    /\ ShownMessages =
         {m \in LogMessages :
            m.agentId \in {msgConn[1], msgConn[2]}
              \/ m.toAgent \in {msgConn[1], msgConn[2]}}
    /\ Len(msgResult) = Cardinality(ShownMessages)
    /\ AscendingByTime(msgResult)

\* C10: the popup shows exactly the messages whose sender (agentId) is one
\* of the two boxes, each once, in ascending order of timestamp.
ShowsSentByEndpoints ==
  msgConn # <<>> =>
    /\ ShownMessages =
         {m \in LogMessages : m.agentId \in {msgConn[1], msgConn[2]}}
    /\ Len(msgResult) = Cardinality(ShownMessages)
    /\ AscendingByTime(msgResult)

\* The popup shows two messages, in another order than they arrived, and
\* leaves out a message of a third agent.
ShowsSentByEndpointsWitness ==
  /\ msgConn # <<>>
  /\ Len(msgResult) >= 2
  /\ msgResult[1].id > msgResult[2].id
  /\ Len(agentMessages) > Len(msgResult)

SeqSet(ms) == {ms[k] : k \in 1..Len(ms)}

\* C11: for every pair of agents the filter returns the same set of
\* messages for (A, B) as for (B, A), in the popup of a canvas connection
\* and in the popup of the visualization.
FilterIsSymmetric ==
  /\ \A a \in Senders, b \in Senders :
       SeqSet(GetConnectionMessages(agentMessages, a, b))
         = SeqSet(GetConnectionMessages(agentMessages, b, a))
  /\ \A from \in AgentNames, to \in AgentNames :
       SeqSet(GetCommunicationMessages(interactions, from, to))
         = SeqSet(GetCommunicationMessages(interactions, to, from))

\* Both popups are open on a pair of different agents and show a message,
\* and the visualization holds a block its popup leaves out.
FilterIsSymmetricWitness ==
  /\ msgConn # <<>>
  /\ msgResult # <<>>
  /\ selectedConnection # NoSelectedConnection
  /\ selectedConnection.from # selectedConnection.to
  /\ commMessages # <<>>
  /\ Len(commMessages) < Len(interactions)

Timestamps(ms) == [k \in 1..Len(ms) |-> ms[k].timestamp]
RECURSIVE Flatten(_)
Flatten(gs) == IF gs = <<>> THEN <<>> ELSE gs[1] \o Flatten(Tail(gs))
\* The number of messages in the first g groups.
RECURSIVE MessagesUpTo(_, _)
MessagesUpTo(gs, g) == IF g = 0 THEN 0 ELSE MessagesUpTo(gs, g - 1) + Len(gs[g])
\* The group that holds the k-th message.
GroupOf(gs, k) ==
  CHOOSE g \in 1..Len(gs) : MessagesUpTo(gs, g - 1) < k /\ k <= MessagesUpTo(gs, g)
Distance(a, b) == IF a >= b THEN a - b ELSE b - a

\* C12: the groups of the popup are the sorted messages cut into
\* consecutive non-empty clusters; two adjacent messages are in the same
\* cluster exactly when their timestamps differ by at most 5000 ms;
\* timestamps 0, 1000, 7000, 7500 give the groups [0, 1000] and
\* [7000, 7500], and no messages give no groups.
GroupsByThreshold ==
  LET ms == commMessages
      gs == conversationGroups
  IN /\ Flatten(gs) = ms
     /\ \A g \in 1..Len(gs) : gs[g] # <<>>
     /\ ms = <<>> => gs = <<>>
     /\ \A k \in 1..(Len(ms) - 1) :
          (GroupOf(gs, k) = GroupOf(gs, k + 1))
            <=> (Distance(ms[k].timestamp, ms[k + 1].timestamp) <= 5000)
     /\ Timestamps(ms) = <<0, 1000, 7000, 7500>>
          => /\ Len(gs) = 2
             /\ Timestamps(gs[1]) = <<0, 1000>>
             /\ Timestamps(gs[2]) = <<7000, 7500>>

\* The popup shows the blocks of timestamps 0, 1000, 7000, 7500, which
\* arrived in another order, as two groups.
GroupsByThresholdWitness ==
  /\ Timestamps(commMessages) = <<0, 1000, 7000, 7500>>
  /\ Timestamps(interactions) # Timestamps(commMessages)
  /\ Len(conversationGroups) = 2

\* C13: testBackendConnection never throws: it returns true when the
\* fetch resolves with an ok response whose body can be read and false
\* otherwise, and the display then shows that result, 'Backend
\* Disconnected' for a rejected fetch.
HealthCheckNeverThrows ==
  healthLast.op = "settle" =>
    /\ healthLast.result \in {"true", "false"}
    /\ healthLast.result = "true"
         <=> (healthLast.fetch = "ok" /\ healthLast.body = "readable")
    /\ backendConnected = healthLast.result
    /\ healthLast.fetch = "rejected" => StatusText = "Backend Disconnected"

\* A health check whose fetch was rejected has turned the display from
\* connected to disconnected while another check was still under way.
HealthCheckNeverThrowsWitness ==
  /\ healthLast.op = "settle"
  /\ healthLast.fetch = "rejected"
  /\ healthLast.before = "true"
  /\ StatusText = "Backend Disconnected"
  /\ \E c \in 1..MaxChecks : healthChecks[c] = "fetch"

\* C14: a call of handleRunFlow with a prompt that is empty after trim, or
\* with no boxes, sends no HTTP request and no websocket message, leaves
\* isRunning false and leaves the message log as it was.
RejectedRunDoesNothing ==
  [][(RunFlow /\ (Trim(prompt) = "" \/ Len(boxes) = 0))
       => /\ Outstanding' = Outstanding
          /\ runs' = runs
          /\ wsSent' = wsSent
          /\ ~isRunning /\ ~isRunning'
          /\ agentMessages' = agentMessages]_vars

\* A call with a prompt but without boxes was rejected while the log held
\* messages and a request of an earlier run was under way.
RejectedRunDoesNothingWitness ==
  /\ runLast = "noBoxes"
  /\ Trim(prompt) # ""
  /\ boxes = <<>>
  /\ agentMessages # <<>>
  /\ Outstanding # {}
  /\ ~isRunning

\* A file that does not parse, or whose document has no array of boxes or
\* no array of connections.
Malformed(file) ==
  \/ file.kind # "json"
  \/ file.data.boxes.t # "array"
  \/ file.data.connections.t # "array"

\* C15: reading a malformed file leaves boxes, connections, pinned boxes,
\* prompt, scale, offset, messages, selection and popup states as they
\* were.
MalformedImportChangesNothing ==
  [][(ReaderLoad /\ Malformed(reading))
       => UNCHANGED <<boxes, connections, pinnedBoxes, prompt, canvasScale,
                      canvasOffset, agentMessages, selectedBoxId,
                      selectedConnectionId, popupStates>>]_vars

\* The read of a file failed on a canvas that has boxes, a pinned box and
\* a prompt and that differs from the sample the malformed files are made
\* of.
MalformedImportChangesNothingWitness ==
  /\ fileLast.op = "failed"
  /\ ~fileLast.wasEmpty
  /\ boxes # <<>>
  /\ boxes # SampleData.boxes.v
  /\ pinnedBoxes # {}
  /\ prompt # ""

\* C16: reading the exported file sets boxes, connections, pinned boxes,
\* prompt, scale and offset to what they were at the export.
ExportImportRoundTrip ==
  [][(ReaderLoad /\ exported # NoExport /\ reading = exported.file)
       => Saved' = exported.at]_vars

\* The exported file was read on a cleared canvas and brought back boxes,
\* a connection, a pinned box, the prompt and the zoomed view.
ExportImportRoundTripWitness ==
  /\ fileLast.op = "imported"
  /\ fileLast.own
  /\ fileLast.wasEmpty
  /\ exported # NoExport
  /\ Saved = exported.at
  /\ boxes # <<>>
  /\ connections # <<>>
  /\ pinnedBoxes # {}
  /\ prompt # ""
  /\ canvasScale # 11

\* C17: at most one prompt pipeline has a request under way at a time, in
\* the application and in the chat panel, and the guard is set exactly
\* while one has: it is released when the pipeline settles, by its answer
\* or by its failure.
OnePipelineAtATime ==
  /\ Cardinality(ChatsInFlight) <= 1
  /\ isProcessing <=> ChatsInFlight # {}
  /\ Cardinality(PipelinesInFlight) <= 1
  /\ chatIsProcessing <=> PipelinesInFlight # {}

\* A prompt was submitted while the first pipeline was in flight and was
\* refused; that pipeline failed, the one after it was answered, and the
\* guard is released; in the chat panel a pipeline failed, the next one is
\* in flight.
OnePipelineAtATimeWitness ==
  /\ submitLast = "busy"
  /\ chats[1] = "failed"
  /\ chats[2] = "done"
  /\ ~isProcessing
  /\ pipelines[1].pc = "failed"
  /\ pipelines[2].pc = "run-test"
  /\ chatIsProcessing

\* The blocks of a list that pipeline p appended.
BlocksBy(blocks, p) == SelectSeq(blocks, LAMBDA block : block.by = p)

\* C18: after stopGeneration aborted a pipeline, that pipeline calls the
\* backend no more, appends no block, and makes no update of the blocks,
\* of isProcessing or of the abort controller.
StoppedPipelineIsSilent ==
  [][\A p \in 1..MaxPipelines :
       pipelines[p].pc = "stopped" =>
         /\ pipelines'[p] = pipelines[p]
         /\ Len(BlocksBy(aiInteractions', p)) <= Len(BlocksBy(aiInteractions, p))
         /\ (ticks'.n # ticks.n /\ ticks'.by = p)
              => UNCHANGED <<aiInteractions, chatIsProcessing,
                             abortController>>]_vars

\* s is a prefix of t.
IsPrefix(s, t) == Len(s) <= Len(t) /\ SubSeq(t, 1, Len(s)) = s

\* C19: but for the start of a run, the clear button and an import, each
\* step leaves the log as it was or appends to it: the earlier log is a
\* prefix of the later one.
AppendOnlyLog ==
  [][(~RunFlow /\ ~ClearCanvas /\ ~ReaderLoad)
       => IsPrefix(agentMessages, agentMessages')]_vars

\* C20: a connection drag starts only while connect mode is on, and a
\* connection is added only by a drag that is in progress, that is, one
\* that started in connect mode.
ConnectingOnlyInConnectMode ==
  [][/\ (connectDrag = NoDrag /\ connectDrag' # NoDrag) => connectMode
     /\ (Len(connections') > Len(connections)) => connectDrag # NoDrag]_vars

\* A drag that started in connect mode was dropped on a handle and added
\* its connection after connect mode had been turned off.
ConnectingOnlyInConnectModeWitness ==
  /\ last.op = "mouseUp"
  /\ connections # <<>>
  /\ connectDrag = NoDrag
  /\ ~connectMode

\* The box with the id in the list after the step.
FindBoxAfter(id) == boxes'[CHOOSE i \in 1..Len(boxes') : boxes'[i].id = id]

\* The box with the id is in the list and pinned before and after the step
\* and its x or y changes.
PinnedBoxMoves(id) ==
  /\ id \in BoxIds /\ id \in pinnedBoxes
  /\ id \in {boxes'[i].id : i \in 1..Len(boxes')} /\ id \in pinnedBoxes'
  /\ <<FindBoxAfter(id).x, FindBoxAfter(id).y>> # <<FindBox(id).x, FindBox(id).y>>

\* C21 as stated: a drag never starts on a pinned box and the x and y of
\* a box never change while it is pinned.
PinnedBoxNeverMoves ==
  [][/\ (dragId' # dragId /\ dragId' # 0) => dragId' \notin pinnedBoxes
     /\ \A id \in BoxIds : ~PinnedBoxMoves(id)]_vars

\* C21, amended: a drag never starts on a pinned box, and the x and y of
\* a pinned box change only when it is the box of a drag, which started
\* before the box was pinned.
PinDisablesDragStart ==
  [][/\ (dragId' # dragId /\ dragId' # 0) => dragId' \notin pinnedBoxes
     /\ \A id \in BoxIds : PinnedBoxMoves(id) => dragId = id]_vars

\* Box 1 is pinned and where it was created after a move of the mouse that
\* dragged box 2, which is not pinned.
PinDisablesDragStartWitness ==
  /\ 1 \in pinnedBoxes /\ 1 \in BoxIds
  /\ FindBox(1).x = BOX_START /\ FindBox(1).y = BOX_START
  /\ dragId = 2 /\ 2 \in BoxIds /\ 2 \notin pinnedBoxes
  /\ FindBox(2).x # BOX_START

UniqueConnectionIds ==
  \A i, j \in 1..Len(connections) :
    connections[i].id = connections[j].id => i = j

\* C24: the selected box is a box of the list and the selected connection
\* is a connection of the list.
SelectionExists ==
  /\ selectedBoxId # 0 => selectedBoxId \in BoxIds
  /\ selectedConnectionId # NoConn
       => \E i \in 1..Len(connections) : connections[i].id = selectedConnectionId


\* C25: a file that the import accepts installs only connections whose two
\* ends are boxes the same import installs.
ImportInstallsNoDanglingConnection ==
  [][(ReaderLoad /\ Accepted(reading))
       => \A i \in 1..Len(connections') :
            /\ \E j \in 1..Len(boxes') : boxes'[j].id = connections'[i].fromId
            /\ \E j \in 1..Len(boxes') : boxes'[j].id = connections'[i].toId]_vars


\* C26: once a later run was started, the callback of a status request of
\* an earlier workflow leaves agentMessages as it is.
LaterRunStarted(r) == \E s \in 1..MaxRuns : s > r /\ runs[s].pc # "none"
StalePollIsSilent ==
  [][\A r \in 1..MaxRuns, resp \in PollAnswers :
       (PollResponse(r, resp) /\ LaterRunStarted(r))
         => agentMessages' = agentMessages]_vars

\* C27: the log holds at most one message that tells the end of the
\* workflow, whether it comes from a status request or from the websocket.
CompletionMessages ==
  {i \in 1..Len(agentMessages) :
     agentMessages[i].id \in {Completion.id, StatusMessage.id}}
AtMostOneCompletionMessage == Cardinality(CompletionMessages) <= 1


\* C28: every recursion of processIteration raises the iteration by one; at
\* MAX_ITERATIONS it ends the submission without a request; a submission
\* makes at most MAX_ITERATIONS requests to /run-test.
RunTestRequests(p) ==
  {i \in 1..Len(aiInteractions) :
     /\ aiInteractions[i].by = p
     /\ aiInteractions[i].id = 3
     /\ aiInteractions[i].isActive}
IterationsAreBounded ==
  /\ [](\A p \in 1..MaxPipelines :
          /\ pipelines[p].pc \in InFlightPcs
               => pipelines[p].iteration < MAX_ITERATIONS
          /\ Cardinality(RunTestRequests(p)) <= MAX_ITERATIONS)
  /\ [][\A p \in 1..MaxPipelines :
          IterationAnswered(p)
            => IF pipelines[p].iteration + 1 < MAX_ITERATIONS
                 THEN /\ pipelines'[p].pc = "run-test"
                      /\ pipelines'[p].iteration = pipelines[p].iteration + 1
                 ELSE /\ pipelines'[p].pc = "done"
                      /\ Len(aiInteractions') = Len(aiInteractions) + 2
                      /\ \A q \in 1..MaxPipelines :
                           RunTestRequests(q)' = RunTestRequests(q)]_vars
IterationsAreBoundedWitness ==
  \E p \in 1..MaxPipelines :
    /\ pipelines[p].pc = "done"
    /\ Cardinality(RunTestRequests(p)) = MAX_ITERATIONS


\* C29: an interval that is set belongs to a pipeline that awaits a
\* request; a pipeline that ended has no interval left.
IntervalsClearedAtEnd ==
  \A interval \in intervals : interval.by \in PipelinesInFlight


\* C30: a move of the mouse to the point where the header of a popup was
\* grabbed leaves the popup where it is displayed, and a move by (dx, dy)
\* from that point moves it by (dx, dy), also for a popup that has no
\* stored position.
PopupDragKeepsGrabOffset ==
  [][\A i \in 1..Len(connections), grab \in PopupPts :
       PopupDragMouseDown(i, grab)
         => \A pt \in PopupPts :
              <<4 * (pt[1] - draggingPopup'.offsetX),
                4 * (pt[2] - draggingPopup'.offsetY)>>
                = <<DisplayedPos4(i)[1] + 4 * (pt[1] - grab[1]),
                    DisplayedPos4(i)[2] + 4 * (pt[2] - grab[2])>>]_vars
====
